---- MODULE Spec2Model ----
(***************************************************************************)
(* Fallen Tweaks: the module lifecycle manager of the content script, the  *)
(* chrome.storage bridge it reads, and the three feature modules it        *)
(* enables and disables (bazaar-total, card-favourites,                    *)
(* quality-favourites), each with its MutationObserver, its debounce timer *)
(* and the part of the page it writes to.                                  *)
(*                                                                         *)
(* One JavaScript task (an event handler, a timer callback, the code after *)
(* an await) is one action.  The MutationObserver callback runs in the     *)
(* microtask checkpoint that ends the task which made the DOM changes, so  *)
(* it is part of that task's action.                                       *)
(***************************************************************************)
EXTENDS Integers, Sequences, FiniteSets, TLC

VARIABLES
  storage,        \* chrome.storage.sync: key -> <<>> (unset) or <<value>>
  changes,        \* storage.onChanged events queued for the content script
  pc,             \* content script: "start", "awaitStates", "listening"
  states,         \* initialize(): the value its read returned, while it runs
  modules,        \* ModuleManager.modules, in insertion order
  activeModules,  \* ModuleManager.activeModules
  inflight,       \* per module: enable() promises still awaiting their read
  unit,           \* per module: the module-level variables and its page part
  calls,          \* what the step just taken invoked, if it ran the manager's loop
  runs,           \* per module: enable() invocations since its last disable()
  tab,            \* the page the tab shows: "none", "bazaar", "story", "myself"
  quiet,          \* the page has stopped changing its own DOM
  pending,        \* a second context: <<>>, or <<the store call it has in flight>>
  did             \* what the step just taken did to the store or the registry

vars == <<storage, changes, pc, states, modules, activeModules, inflight,
          unit, calls, runs, tab, quiet, pending, did>>

(***************************************************************************)
(* Bounds of the model.                                                    *)
(***************************************************************************)
MaxChanges == 1
MaxInflight == 2
MaxBurst == 2
MaxSettling == 2

(***************************************************************************)
(* shared/constants.ts                                                     *)
(***************************************************************************)
BazaarId == "bazaar-total"
CardId == "card-favourites"
QualityId == "quality-favourites"
MODULE_REGISTRY == <<BazaarId, CardId, QualityId>>
ModuleIds == {MODULE_REGISTRY[i] : i \in 1..Len(MODULE_REGISTRY)}

Range(s) == {s[i] : i \in 1..Len(s)}
Min(a, b) == IF a < b THEN a ELSE b

\* the log of a step that is no call of the store's or the registry's API
NoOp == [op |-> "none"]

(***************************************************************************)
(* shared/storage.ts.  A key that was never set holds <<>>; a key that was *)
(* set holds <<value>>.  A Record<string, boolean> is a function from the  *)
(* ids it has to BOOLEAN.                                                  *)
(***************************************************************************)
getDefault(key) == <<>>

\* a getStorage that ignores what the store holds
getStorageDefaultOnly(st, key) == getDefault(key)

getStorage(st, key) == IF st[key] = <<>> THEN getDefault(key) ELSE st[key][1]

\* a set() that merges the value into what the key holds
setStorageMerging(st, key, value) ==
  [st EXCEPT ![key] = IF @ = <<>> THEN <<value>> ELSE <<value @@ @[1]>>]

\* chrome.storage.sync.set({ [key]: value }): the key holds the value given
setStorage(st, key, value) == [st EXCEPT ![key] = <<value>>]

\* states[id] ?? false, and the truthiness test if (states[id])
Lookup(m, id) == id \in DOMAIN m /\ m[id]

EnabledIn(m) == {id \in ModuleIds : Lookup(m, id)}

isModuleEnabled(st, id) == Lookup(getStorage(st, "moduleStates"), id)

\* an assignment that drops the map's other entries
WithEntryOnly(m, id, v) == [x \in {id} |-> v]

\* states[moduleId] = enabled
WithEntry(m, id, v) == [x \in DOMAIN m \cup {id} |-> IF x = id THEN v ELSE m[x]]

\* initializeStorage's defaults for moduleStates, from the first registry entry only
moduleDefaultsFirstOnly == [id \in {MODULE_REGISTRY[1]} |-> FALSE]

\* for (const mod of MODULE_REGISTRY) defaults[mod.id] = false
moduleDefaults == [id \in ModuleIds |-> FALSE]

\* chrome.storage.onChanged payload of one set() of one key
ChangeOf(st, key, value) == [key |-> key, oldValue |-> st[key], newValue |-> <<value>>]

(***************************************************************************)
(* A MutationRecord, as far as isOwnMutation reads it: the kind of node    *)
(* its target is and the kinds of the nodes added and removed.  All the    *)
(* observers watch childList (bazaar-total also characterData), never      *)
(* attributes, so class and style changes make no record.                  *)
(***************************************************************************)
Mut(target, added, removed) == [target |-> target, added |-> added, removed |-> removed]

\* a change the page itself makes, outside everything the modules injected
PageMut == Mut("page", {"element"}, {"element"})

Observing(s) == s.observer \/ s.leaked

\* a DOM write by the module itself: recorded while an observer is connected
Write(s, target, added, removed) ==
  IF Observing(s) THEN [s EXCEPT !.muts = @ \cup {Mut(target, added, removed)}] ELSE s

NoCallback == [batch |-> {}, scheduled |-> FALSE]

\* the module-level variables every module has, and what the claims log of them
Common ==
  [observer |-> FALSE, leaked |-> FALSE, debounceTimer |-> "null", timers |-> 0,
   burst |-> 0, muts |-> {}, lastCb |-> NoCallback, life |-> "new"]

\* life: "new", then "enabling" from a call of enable() to its return,
\* "enabled" once enable() has returned, "disabled" once disable() has

(***************************************************************************)
(* The debounce slot: debounceTimer is "null", "live" (the handle of a     *)
(* pending timeout) or "stale" (the handle of a timeout that has fired or  *)
(* was cleared); timers counts the module's pending timeouts in the        *)
(* browser; burst counts the batches that scheduled since the last         *)
(* recompute ran or was cancelled.                                         *)
(***************************************************************************)
\* a clearTimeout that cancels nothing
clearTimeoutLost(s) == s

clearTimeout(s) ==
  IF s.debounceTimer = "live"
  THEN [s EXCEPT !.timers = @ - 1, !.debounceTimer = "stale"]
  ELSE s

\* if (debounceTimer) clearTimeout(debounceTimer); debounceTimer = setTimeout(f, ms)
schedule(s) ==
  LET c == IF s.debounceTimer # "null" THEN clearTimeout(s) ELSE s
  IN [c EXCEPT !.debounceTimer = "live", !.timers = Min(@ + 1, 2),
               !.burst = Min(@ + 1, MaxBurst), !.lastCb.scheduled = TRUE]

\* if (debounceTimer) { clearTimeout(debounceTimer); debounceTimer = null; }
cancel(s) ==
  LET c == IF s.debounceTimer # "null" THEN clearTimeout(s) ELSE s
  IN [c EXCEPT !.debounceTimer = IF @ # "null" THEN "null" ELSE @, !.burst = 0]

\* if (observer) { observer.disconnect(); observer = null; }: the records
\* queued for that observer are dropped
disconnect(s) ==
  IF s.observer
  THEN [s EXCEPT !.observer = FALSE, !.muts = IF s.leaked THEN @ ELSE {}]
  ELSE s

\* observer = new MutationObserver(cb); observer.observe(document.body, ...):
\* an observer the variable still held stays connected, with no reference left
observe(s) == [s EXCEPT !.observer = TRUE, !.leaked = @ \/ s.observer]

\* getComputedStyle(el).position === "static": the inline style wins over
\* the stylesheet's value
IsStatic(css, pos) == pos = "" /\ css = "static"

(***************************************************************************)
(* content/modules/bazaar-total.ts                                         *)
(***************************************************************************)
\* a .shop__item: qty < 0 is no .js-item-value element, price < 0 no
\* .item__price element (price in hundredths), scrip the count parseScripPrice
\* finds in .item__desc (0: no element, or no match)
ShopItem(qty, price, scrip) == [qty |-> qty, price |-> price, scrip |-> scrip]

\* a reduce whose callback drops the accumulator
computeTotalDropsSum(items) ==
  IF items = <<>> THEN 0 ELSE items[Len(items)].quantity * items[Len(items)].price

RECURSIVE computeTotal(_)
computeTotal(items) ==
  IF items = <<>> THEN 0
  ELSE computeTotal(SubSeq(items, 1, Len(items) - 1))
         + items[Len(items)].quantity * items[Len(items)].price

RECURSIVE echoItems(_)
echoItems(items) ==
  IF items = <<>> THEN <<>>
  ELSE LET it == items[1]
           rest == echoItems(Tail(items))
       IN IF it.qty >= 0 /\ it.price >= 0
          THEN <<[quantity |-> it.qty, price |-> it.price]>> \o rest
          ELSE rest

RECURSIVE scripItems(_)
scripItems(items) ==
  IF items = <<>> THEN <<>>
  ELSE LET it == items[1]
           rest == scripItems(Tail(items))
       IN IF it.qty >= 0 /\ it.price < 0 /\ it.scrip > 0
          THEN <<[quantity |-> it.qty, price |-> it.scrip]>> \o rest
          ELSE rest

isSellTabActive(s) == s.nav \in {"noneActive", "sellActive"}

calculateTotalsFromDOM(s) ==
  LET echoTotal == computeTotal(echoItems(s.items))
      scripTotal == computeTotal(scripItems(s.items))
  IN (IF echoTotal > 0 THEN <<[currency |-> "Echoes", total |-> echoTotal]>> ELSE <<>>)
     \o (IF scripTotal > 0
         THEN <<[currency |-> "Hinterland Scrip", total |-> scripTotal]>> ELSE <<>>)

removeBadge(s) ==
  IF s.badge # <<>>
  THEN Write([s EXCEPT !.badge = <<>>, !.headerPos = ""], "header", {}, {"badge"})
  ELSE s

\* formatCurrency, as far as the badge's structure goes: the span of one total
valueSpan(t) == [cls |-> "value", currency |-> t.currency, total |-> t.total]

labelSpan == [cls |-> "label"]
separatorSpan == [cls |-> "separator"]

\* the loop of renderBadge without its test of i > 0
RECURSIVE valueSpansSeparatorFirst(_, _)
valueSpansSeparatorFirst(totals, i) ==
  IF i > Len(totals) THEN <<>>
  ELSE <<separatorSpan, valueSpan(totals[i])>> \o valueSpansSeparatorFirst(totals, i + 1)

\* for (let i = 0; i < totals.length; i++): a separator before every value
\* but the first
RECURSIVE valueSpans(_, _)
valueSpans(totals, i) ==
  IF i > Len(totals) THEN <<>>
  ELSE (IF i > 1 THEN <<separatorSpan>> ELSE <<>>) \o <<valueSpan(totals[i])>>
         \o valueSpans(totals, i + 1)

\* the children renderBadge gives the emptied badge
badgeChildren(totals) == <<labelSpan>> \o valueSpans(totals, 1)

\* a renderBadge that does not empty the badge before it fills it
renderBadgeKeepsContent(s, totals) ==
  IF ~s.header THEN removeBadge(s)
  ELSE LET a == IF s.badge = <<>>
                THEN Write([s EXCEPT !.headerPos =
                               IF IsStatic(s.headerCss, s.headerPos) THEN "relative" ELSE @],
                           "header", {"badge"}, {})
                ELSE s
       IN Write([a EXCEPT !.badge = <<(IF s.badge = <<>> THEN <<>> ELSE s.badge[1])
                                        \o badgeChildren(totals)>>],
                "badge", {"span"}, {})

renderBadge(s, totals) ==
  IF ~s.header THEN removeBadge(s)
  ELSE LET a == IF s.badge = <<>>
                THEN Write([s EXCEPT !.headerPos =
                               IF IsStatic(s.headerCss, s.headerPos) THEN "relative" ELSE @],
                           "header", {"badge"}, {})
                ELSE Write(s, "badge", {}, {"span"})
       IN Write([a EXCEPT !.badge = <<badgeChildren(totals)>>], "badge", {"span"}, {})

bazaarUpdate(s) ==
  IF isSellTabActive(s) /\ Len(s.items) > 0
  THEN LET totals == calculateTotalsFromDOM(s)
       IN IF Len(totals) > 0 THEN renderBadge(s, totals) ELSE removeBadge(s)
  ELSE removeBadge(s)

bazaarIsOwnMutation(s, mutations) ==
  IF s.badge = <<>> THEN FALSE
  ELSE \A m \in mutations : m.target = "badge"

bazaarEnable(s) == observe(bazaarUpdate(s))

bazaarDisable(s) == removeBadge(cancel(disconnect(s)))

\* the bazaar page: the nav buttons, the shop items, the .exchange__title
\* header (headerCss its stylesheet position, headerPos its inline one), the badge
BazaarPage(nav, items, header, css) ==
  [nav |-> nav, items |-> items, header |-> header, headerCss |-> css,
   headerPos |-> "", badge |-> <<>>]

BazaarInit == Common @@ BazaarPage("noButtons", <<>>, FALSE, "static")

(***************************************************************************)
(* content/modules/card-favourites.ts                                      *)
(***************************************************************************)
CardIds == {"c1", "c2"}
CardOrder == <<"c1", "c2">>

\* a .hand__card-container[data-event-id] with its .hand__card: the inline
\* position of the card, the preference class on it, the icon of its
\* indicator ("none": no indicator element), whether the indicator is hidden,
\* whether the overlay is on it, the button of the overlay that has the
\* active class ("none": neither, or no overlay)
FreshCard == [pos |-> "", cls |-> "none", indicator |-> "none", hidden |-> FALSE,
              overlay |-> FALSE, active |-> "none"]

\* cardPrefs[cardId], "none" for undefined
PrefOf(prefs, c) == IF c \in DOMAIN prefs THEN prefs[c] ELSE "none"

ensurePositioned(s, c) ==
  IF IsStatic(s.cardCss, s.cards[c].pos) THEN [s EXCEPT !.cards[c].pos = "relative"] ELSE s

clearPositioned(s, c) == [s EXCEPT !.cards[c].pos = ""]

applyIndicator(s, c) ==
  LET pref == PrefOf(s.cardPrefs, c)
  IN IF pref = "none"
     THEN clearPositioned(
            IF s.cards[c].indicator # "none"
            THEN Write([s EXCEPT !.cards[c].indicator = "none", !.cards[c].hidden = FALSE],
                       "hand__card", {}, {"indicator"})
            ELSE s, c)
     ELSE LET p == ensurePositioned(s, c)
              a == IF p.cards[c].indicator = "none"
                   THEN Write(p, "hand__card", {"indicator"}, {})
                   ELSE p
          IN Write([a EXCEPT !.cards[c].indicator = pref], "indicator", {"text"},
                   IF p.cards[c].indicator = "none" THEN {} ELSE {"text"})

applyCardState(s, c) == applyIndicator([s EXCEPT !.cards[c].cls = PrefOf(s.cardPrefs, c)], c)

RECURSIVE applyCardStatesFrom(_, _)
applyCardStatesFrom(s, i) ==
  IF i > Len(CardOrder) THEN s
  ELSE applyCardStatesFrom(IF CardOrder[i] \in DOMAIN s.cards
                           THEN applyCardState(s, CardOrder[i]) ELSE s, i + 1)

applyAllCardStates(s) == applyCardStatesFrom(s, 1)

removeCardUI(s, c) ==
  LET a == IF s.cards[c].indicator # "none"
           THEN Write(s, "hand__card", {}, {"indicator"}) ELSE s
      b == IF s.cards[c].overlay THEN Write(a, "hand__card", {}, {"overlay"}) ELSE a
  IN [b EXCEPT !.cards[c] = [FreshCard EXCEPT !.pos = s.cards[c].pos]]

RECURSIVE removeCardUIFrom(_, _)
removeCardUIFrom(s, i) ==
  IF i > Len(CardOrder) THEN s
  ELSE removeCardUIFrom(IF CardOrder[i] \in DOMAIN s.cards
                        THEN removeCardUI(s, CardOrder[i]) ELSE s, i + 1)

removeAllCardUI(s) == removeCardUIFrom(s, 1)

\* the class toggles are attribute changes, which the observer does not record
updateOverlayButtons(s, c) ==
  IF s.cards[c].overlay THEN [s EXCEPT !.cards[c].active = PrefOf(s.cardPrefs, c)] ELSE s

showOverlay(s, c) ==
  IF s.cards[c].overlay THEN s
  ELSE LET p == ensurePositioned(s, c)
       IN updateOverlayButtons(
            Write([p EXCEPT !.cards[c].hidden = (p.cards[c].indicator # "none"),
                            !.cards[c].overlay = TRUE],
                  "hand__card", {"overlay"}, {}), c)

hideOverlay(s, c) ==
  LET a == IF s.cards[c].overlay
           THEN Write([s EXCEPT !.cards[c].overlay = FALSE, !.cards[c].active = "none"],
                      "hand__card", {}, {"overlay"})
           ELSE s
  IN [a EXCEPT !.cards[c].hidden = FALSE]

\* setCardPref up to its await: the cache entry is deleted (pref "none") or set
setCardPrefCache(s, c, pref) ==
  [s EXCEPT !.cardPrefs =
     IF pref = "none"
     THEN [x \in DOMAIN @ \ {c} |-> @[x]]
     ELSE [x \in DOMAIN @ \cup {c} |-> IF x = c THEN pref ELSE @[x]]]

\* setCardPref after its await, on the container it was called with
setCardPrefFinish(s, c) ==
  IF c \in DOMAIN s.cards THEN updateOverlayButtons(applyCardState(s, c), c) ELSE s

\* a toggle that clears whatever tag the card has
toggledPrefViaNone(current, pref) == IF current = "none" THEN pref ELSE "none"

\* current === pref ? null : pref
toggledPref(current, pref) == IF current = pref THEN "none" ELSE pref

\* toggleCardPref run to its end with nothing between its two halves
toggleCardPref(s, c, pref) ==
  setCardPrefFinish(setCardPrefCache(s, c, toggledPref(PrefOf(s.cardPrefs, c), pref)), c)

\* isOwnMutation without its .hand__card rule
cardIsOwnMutationTargetOnly(s, mutations) ==
  \A m \in mutations : m.target \in {"indicator", "overlay"}

cardIsOwnMutation(s, mutations) ==
  \A m \in mutations :
    \/ m.target \in {"indicator", "overlay"}
    \/ /\ m.target = "hand__card"
       /\ m.added \subseteq {"indicator", "overlay"}
       /\ m.removed \subseteq {"indicator", "overlay"}

cardEnableFinish(s, st) ==
  observe([applyAllCardStates([s EXCEPT !.cardPrefs = getStorage(st, "cardPreferences")])
             EXCEPT !.bound = TRUE])

\* a disable() that leaves the cache as it is
cardDisableKeepsCache(s) == disconnect(cancel(removeAllCardUI([s EXCEPT !.bound = FALSE])))

cardDisable(s) ==
  [disconnect(cancel(removeAllCardUI([s EXCEPT !.bound = FALSE]))) EXCEPT !.cardPrefs = <<>>]

\* the story page: the cards of the hand, and the position the stylesheet
\* gives a .hand__card
CardPage(css, present) ==
  [cardCss |-> css, cards |-> [c \in present |-> FreshCard]]

\* the module-level variables: the listeners are bound, the preference cache
CardVars == [bound |-> FALSE, cardPrefs |-> <<>>]

CardInit == Common @@ CardVars @@ CardPage("static", {})

(***************************************************************************)
(* content/modules/quality-favourites.ts                                   *)
(***************************************************************************)
QualityIds == {"q1", "q2"}

isFavourite(s, q) == q \in Range(s.favouriteIds)

\* Array.prototype.indexOf, counted from 1; 0 for JavaScript's -1
indexOf(ids, x) ==
  IF x \in Range(ids) THEN CHOOSE i \in 1..Len(ids) : ids[i] = x /\ \A j \in 1..(i - 1) : ids[j] # x
  ELSE 0

\* ids.splice(i - 1, 0, x): x becomes the element at place i
splice(ids, i, x) == SubSeq(ids, 1, i - 1) \o <<x>> \o SubSeq(ids, i, Len(ids))

\* a reorder that looks the target up before it takes the moved id out
reorderFavouriteStaleIndex(ids, movedId, targetId, insertBefore) ==
  LET filtered == SelectSeq(ids, LAMBDA x : x # movedId)
      targetIndex == indexOf(ids, targetId)
  IN IF indexOf(filtered, targetId) = 0 THEN [ids |-> ids, wrote |-> FALSE]
     ELSE [ids |-> splice(filtered, Min(IF insertBefore THEN targetIndex ELSE targetIndex + 1,
                                        Len(filtered) + 1), movedId),
           wrote |-> TRUE]

\* a reorder that does not take the moved id out
reorderFavouriteNoFilter(ids, movedId, targetId, insertBefore) ==
  LET targetIndex == indexOf(ids, targetId)
  IN IF targetIndex = 0 THEN [ids |-> ids, wrote |-> FALSE]
     ELSE [ids |-> splice(ids, IF insertBefore THEN targetIndex ELSE targetIndex + 1, movedId),
           wrote |-> TRUE]

\* a reorder that puts the moved id last when the target is gone
reorderFavouriteAppendsOnMiss(ids, movedId, targetId, insertBefore) ==
  LET filtered == SelectSeq(ids, LAMBDA x : x # movedId)
      targetIndex == indexOf(filtered, targetId)
  IN [ids |-> splice(filtered, IF targetIndex = 0 THEN Len(filtered) + 1
                               ELSE IF insertBefore THEN targetIndex ELSE targetIndex + 1,
                     movedId),
      wrote |-> TRUE]

\* reorderFavourite up to its return or its await: the new favouriteIds, and
\* whether it went on to setStorage
reorderFavourite(ids, movedId, targetId, insertBefore) ==
  LET filtered == SelectSeq(ids, LAMBDA x : x # movedId)
      targetIndex == indexOf(filtered, targetId)
  IN IF targetIndex = 0 THEN [ids |-> ids, wrote |-> FALSE]
     ELSE [ids |-> splice(filtered, IF insertBefore THEN targetIndex ELSE targetIndex + 1,
                          movedId),
           wrote |-> TRUE]

\* a toggle that pushes the id without asking isFavourite
toggleFavouritePushes(ids, q) == Append(ids, q)

\* a toggle that puts a new id first
toggleFavouritePrepends(ids, q) ==
  IF q \in Range(ids) THEN SelectSeq(ids, LAMBDA x : x # q) ELSE <<q>> \o ids

\* toggleFavourite up to its await: filter the id out, or push it
toggleFavouriteIds(ids, q) ==
  IF q \in Range(ids) THEN SelectSeq(ids, LAMBDA x : x # q) ELSE Append(ids, q)

\* a search test that never finds text
isSearchActiveNever(s) == FALSE

isSearchActive(s) == s.search

removeFavouritesGroup(s) ==
  IF s.group # <<>>
  THEN Write([s EXCEPT !.group = <<>>], "parent", {}, {"group"})
  ELSE s

\* a collection that clones without looking for the item on the page
clonedItemsUnchecked(ids, items) == ids

\* the favourite ids, in order, whose item is on the page
RECURSIVE clonedItems(_, _)
clonedItems(ids, items) ==
  IF ids = <<>> THEN <<>>
  ELSE (IF ids[1] \in items THEN <<ids[1]>> ELSE <<>>) \o clonedItems(Tail(ids), items)

\* a build that drops from the list the ids it found no item for
buildFavouritesGroupPruning(s) ==
  LET r == removeFavouritesGroup(s)
      clones == clonedItems(r.favouriteIds, r.items)
  IN IF Len(r.favouriteIds) = 0 \/ isSearchActive(r) \/ ~r.firstGroup \/ clones = <<>>
     THEN r
     ELSE Write([r EXCEPT !.group = <<clones>>, !.favouriteIds = clones],
                "parent", {"group"}, {})

buildFavouritesGroup(s) ==
  LET r == removeFavouritesGroup(s)
      clones == clonedItems(r.favouriteIds, r.items)
  IN IF Len(r.favouriteIds) = 0 \/ isSearchActive(r) \/ ~r.firstGroup \/ clones = <<>>
     THEN r
     ELSE Write([r EXCEPT !.group = <<clones>>], "parent", {"group"}, {})

refreshAll(s) == buildFavouritesGroup(s)

handleSearchInput(s) ==
  IF isSearchActive(s) THEN removeFavouritesGroup(s) ELSE buildFavouritesGroup(s)

\* mouseover on an item of the page's own groups
qualityHandleMouseEnter(s, q) ==
  IF q \in s.stars THEN s
  ELSE Write([s EXCEPT !.stars = @ \cup {q},
                       !.relative = IF IsStatic(s.itemCss, IF q \in @ THEN "relative" ELSE "")
                                    THEN @ \cup {q} ELSE @],
             "quality-item", {"star"}, {})

qualityHandleMouseLeave(s, q) ==
  IF q \in s.stars
  THEN Write([s EXCEPT !.stars = @ \ {q}, !.relative = @ \ {q}], "quality-item", {}, {"star"})
  ELSE s

removeHoverStars(s) ==
  IF s.stars # {}
  THEN Write([s EXCEPT !.stars = {}, !.relative = @ \ s.stars], "quality-item", {}, {"star"})
  ELSE s

\* isOwnMutation without its added/removed-nodes rule
qualityIsOwnMutationTargetOnly(s, mutations) ==
  \A m \in mutations : m.target \in {"group", "star"}

qualityIsOwnMutation(s, mutations) ==
  \A m \in mutations :
    \/ m.target = "group"
    \/ m.target = "star"
    \/ (m.added \cup m.removed) \subseteq {"star", "group"}

qualityEnableStart(s) == [s EXCEPT !.bodyClass = TRUE]

qualityEnableFinish(s, st) ==
  observe([refreshAll([s EXCEPT !.favouriteIds = getStorage(st, "favouriteQualities")])
             EXCEPT !.bound = TRUE])

qualityDisable(s) ==
  [removeFavouritesGroup(removeHoverStars(disconnect(cancel(
     [s EXCEPT !.bodyClass = FALSE, !.bound = FALSE]))))
     EXCEPT !.favouriteIds = <<>>]

\* the qualities page: the ids of the .quality-item elements of the page's
\* own groups, whether a .quality-group exists, the stylesheet position of an
\* item, whether the search field holds text; of the module: the items with a
\* hover star, the items whose inline position is "relative", the ids cloned
\* into the favourites group (<<>>: no group, <<ids>>: the group)
QualityPage(items, firstGroup, css, search) ==
  [items |-> items, firstGroup |-> firstGroup, itemCss |-> css, search |-> search,
   stars |-> {}, relative |-> {}, group |-> <<>>]

\* the module-level variables, and the class enable() puts on document.body
QualityVars == [bound |-> FALSE, bodyClass |-> FALSE, favouriteIds |-> <<>>,
                draggedId |-> "null"]

QualityInit == Common @@ QualityVars @@ QualityPage({}, FALSE, "static", FALSE)

(***************************************************************************)
(* The FeatureModule interface, by module id.                              *)
(***************************************************************************)
\* enable() is an async function that awaits getStorage
IsAsync(id) == id \in {CardId, QualityId}

\* enable() of a module that awaits nothing
EnableSync(id, s) == [bazaarEnable(s) EXCEPT !.life = "enabled"]

\* enable() up to its await
EnableStart(id, s) ==
  [(IF id = QualityId THEN qualityEnableStart(s) ELSE s) EXCEPT !.life = "enabling"]

\* enable() from its await on, the read having returned the store's content
EnableFinish(id, s, st) ==
  [(IF id = CardId THEN cardEnableFinish(s, st) ELSE qualityEnableFinish(s, st))
     EXCEPT !.life = "enabled"]

Disable(id, s) ==
  [(CASE id = BazaarId -> bazaarDisable(s)
      [] id = CardId -> cardDisable(s)
      [] OTHER -> qualityDisable(s))
     EXCEPT !.life = "disabled"]

\* the function the debounce timer runs
Recompute(id, s) ==
  CASE id = BazaarId -> bazaarUpdate(s)
    [] id = CardId -> applyAllCardStates(s)
    [] OTHER -> refreshAll(s)

isOwnMutation(id, s, mutations) ==
  CASE id = BazaarId -> bazaarIsOwnMutation(s, mutations)
    [] id = CardId -> cardIsOwnMutation(s, mutations)
    [] OTHER -> qualityIsOwnMutation(s, mutations)

\* the observer callback: debouncedUpdate and the two inline callbacks
debouncedUpdate(id, s, mutations) ==
  IF isOwnMutation(id, s, mutations) THEN s ELSE schedule(s)

\* The microtask checkpoint that ends a task: the records of the task are
\* handed to the callback, if an observer is connected to receive them.
Deliver(id, s) ==
  IF s.muts = {} \/ ~Observing(s)
  THEN [s EXCEPT !.muts = {}, !.lastCb = NoCallback]
  ELSE [debouncedUpdate(id, [s EXCEPT !.lastCb = [batch |-> s.muts, scheduled |-> FALSE]],
                        s.muts)
          EXCEPT !.muts = {}]

\* a change the page makes while the module's observer may be connected
PageWrite(s) == IF Observing(s) THEN [s EXCEPT !.muts = @ \cup {PageMut}] ELSE s

(***************************************************************************)
(* content/module-manager.ts                                               *)
(***************************************************************************)
NoCalls == [kind |-> "none", enabled |-> {}, disabled |-> {}, threw |-> {}, units |-> {}]

\* The units of index.ts are named by their ids; SecondBazaar is another unit
\* object whose id is bazaar-total.  The Map is the sequence of its values in
\* insertion order, each under the key IdOf(value).
SecondBazaar == "bazaar-total, second unit"
IdOf(u) == IF u = SecondBazaar THEN BazaarId ELSE u

\* this.modules.has(id)
has(mods, id) == \E i \in 1..Len(mods) : IdOf(mods[i]) = id

\* a register without its has() test: Map.set replaces the value of the key
registerOverwrites(mods, u) ==
  IF has(mods, IdOf(u))
  THEN [i \in 1..Len(mods) |-> IF IdOf(mods[i]) = IdOf(u) THEN u ELSE mods[i]]
  ELSE Append(mods, u)

register(mods, u) == IF has(mods, IdOf(u)) THEN mods ELSE Append(mods, u)

\* the catch of enableModule and of disableModule: nothing a routine throws
\* leaves the call
enableEscapes(oc) == FALSE

\* a disableModule without its try/catch
disableEscapesUncaught(oc) == oc = "throw"

disableEscapes(oc) == FALSE

\* The manager's fields and the log of the loop, threaded through the loop.
enableModule(m, u, oc) ==
  LET id == IdOf(u) IN
  IF id \in m.activeModules THEN m
  ELSE LET called == [m EXCEPT !.calls.enabled = @ \cup {id},
                               !.calls.units = @ \cup {u},
                               !.runs[id] = Min(@ + 1, 2)]
       IN IF IsAsync(id)
          THEN [called EXCEPT !.unit[id] = EnableStart(id, @), !.inflight[id] = @ + 1]
          ELSE IF oc = "throw"
               THEN [called EXCEPT !.calls.threw = @ \cup {id},
                                   !.escaped = enableEscapes(oc)]
               ELSE [called EXCEPT !.unit[id] = EnableSync(id, @),
                                   !.activeModules = @ \cup {id}]

disableModule(m, u, oc) ==
  LET id == IdOf(u) IN
  IF id \notin m.activeModules THEN m
  ELSE LET called == [m EXCEPT !.calls.disabled = @ \cup {id},
                               !.calls.units = @ \cup {u}, !.runs[id] = 0]
       IN IF oc = "throw"
          THEN [called EXCEPT !.calls.threw = @ \cup {id},
                              !.escaped = disableEscapes(oc)]
          ELSE [called EXCEPT !.unit[id] = Disable(id, @),
                              !.activeModules = @ \ {id}]

\* a loop that enables every module the map has a key for
RECURSIVE initializeLoopHasKey(_, _, _, _)
initializeLoopHasKey(m, i, read, oc) ==
  IF i > Len(m.modules) \/ m.escaped THEN m
  ELSE LET id == IdOf(m.modules[i])
       IN initializeLoopHasKey(IF id \in DOMAIN read
                               THEN enableModule(m, m.modules[i], oc[id]) ELSE m,
                               i + 1, read, oc)

\* for (const [id, module] of this.modules) if (states[id]) this.enableModule(module)
RECURSIVE initializeLoop(_, _, _, _)
initializeLoop(m, i, read, oc) ==
  IF i > Len(m.modules) \/ m.escaped THEN m
  ELSE LET id == IdOf(m.modules[i])
       IN initializeLoop(IF Lookup(read, id) THEN enableModule(m, m.modules[i], oc[id]) ELSE m,
                         i + 1, read, oc)

\* the loop of the onStorageChanged listener
listenerStep(m, u, oldStates, newStates, oc) ==
  LET wasEnabled == Lookup(oldStates, IdOf(u))
      isEnabled == Lookup(newStates, IdOf(u))
  IN IF isEnabled /\ ~wasEnabled THEN enableModule(m, u, oc)
     ELSE IF ~isEnabled /\ wasEnabled THEN disableModule(m, u, oc)
     ELSE m

RECURSIVE listenerLoop(_, _, _, _, _)
listenerLoop(m, i, oldStates, newStates, oc) ==
  IF i > Len(m.modules) \/ m.escaped THEN m
  ELSE listenerLoop(listenerStep(m, m.modules[i], oldStates, newStates,
                                 oc[IdOf(m.modules[i])]),
                    i + 1, oldStates, newStates, oc)

Manager(kind) ==
  [modules |-> modules, activeModules |-> activeModules, inflight |-> inflight,
   unit |-> unit, runs |-> runs, escaped |-> FALSE,
   calls |-> [NoCalls EXCEPT !.kind = kind]]

Commit(m) ==
  /\ \A id \in ModuleIds : m.inflight[id] <= MaxInflight
  /\ activeModules' = m.activeModules
  /\ inflight' = m.inflight
  /\ unit' = [id \in ModuleIds |-> Deliver(id, m.unit[id])]
  /\ runs' = m.runs
  /\ calls' = m.calls

Outcomes(throwing) == IF throwing THEN {"ok", "throw"} ELSE {"ok"}

(***************************************************************************)
(* Actions.                                                                *)
(***************************************************************************)
\* content/index.ts: the three register calls, then initialize() up to its
\* await; the read returns what the store holds now
ContentStart ==
  /\ pc = "start"
  /\ modules' = register(register(register(modules, BazaarId), CardId), QualityId)
  /\ states' = getStorage(storage, "moduleStates")
  /\ pc' = "awaitStates"
  /\ calls' = NoCalls
  /\ did' = NoOp
  /\ UNCHANGED <<storage, changes, activeModules, inflight, unit, runs, tab, quiet,
                 pending>>

\* moduleManager.register(unit), called before initialize()
Register(u) ==
  /\ pc = "start"
  /\ modules' = register(modules, u)
  /\ did' = [op |-> "register", unit |-> u, before |-> modules]
  /\ calls' = NoCalls
  /\ UNCHANGED <<storage, changes, pc, states, activeModules, inflight, unit, runs, tab,
                 quiet, pending>>

\* moduleManager.initialize() up to its await, after whatever was registered
InitializeStart ==
  /\ pc = "start"
  /\ states' = getStorage(storage, "moduleStates")
  /\ pc' = "awaitStates"
  /\ calls' = NoCalls
  /\ did' = NoOp
  /\ UNCHANGED <<storage, changes, modules, activeModules, inflight, unit, runs, tab,
                 quiet, pending>>

\* initialize() from its await on: the loop, then onStorageChanged(...)
InitializeResume(throwing) ==
  /\ pc = "awaitStates"
  /\ \E oc \in [ModuleIds -> Outcomes(throwing)] :
       Commit(initializeLoop(Manager("init"), 1, states, oc))
  /\ pc' = "listening"
  /\ states' = <<>>
  /\ did' = NoOp
  /\ UNCHANGED <<storage, changes, modules, tab, quiet, pending>>

\* setModuleEnabled(id, enabled) in the popup or the options page, its read
\* and its write with no other write between them; the store notifies its
\* listeners of a set() that changed the key's value.  The specifications of
\* the store log the call.
SetModuleEnabledAs(ids, logged) ==
  /\ Len(changes) < MaxChanges
  /\ \E id \in ids, enabled \in BOOLEAN :
       LET old == getStorage(storage, "moduleStates")
           new == WithEntry(old, id, enabled)
       IN /\ storage' = setStorage(storage, "moduleStates", new)
          /\ changes' = IF pc = "listening" /\ storage.moduleStates # <<new>>
                        THEN Append(changes, ChangeOf(storage, "moduleStates", new))
                        ELSE changes
          /\ did' = IF logged
                    THEN [op |-> "setModuleEnabled", id |-> id, enabled |-> enabled,
                          read |-> old, before |-> storage.moduleStates]
                    ELSE NoOp
  /\ calls' = NoCalls
  /\ UNCHANGED <<pc, states, modules, activeModules, inflight, unit, runs, tab, quiet,
                 pending>>

SetModuleEnabled(ids) == SetModuleEnabledAs(ids, FALSE)

\* setModuleEnabled in a second context, up to the return of its read
SetModuleEnabledRead ==
  /\ pending = <<>>
  /\ pending' = <<[fn |-> "setModuleEnabled", read |-> getStorage(storage, "moduleStates")]>>
  /\ calls' = NoCalls
  /\ did' = NoOp
  /\ UNCHANGED <<storage, changes, pc, states, modules, activeModules, inflight, unit,
                 runs, tab, quiet>>

\* ... and from there on: it writes the map it has read, with its one entry
\* set, over whatever the store holds by now
SetModuleEnabledWriteAs(ids, logged) ==
  /\ pending # <<>> /\ pending[1].fn = "setModuleEnabled"
  /\ Len(changes) < MaxChanges
  /\ \E id \in ids, enabled \in BOOLEAN :
       LET new == WithEntry(pending[1].read, id, enabled)
       IN /\ storage' = setStorage(storage, "moduleStates", new)
          /\ changes' = IF pc = "listening" /\ storage.moduleStates # <<new>>
                        THEN Append(changes, ChangeOf(storage, "moduleStates", new))
                        ELSE changes
          /\ did' = IF logged
                    THEN [op |-> "setModuleEnabled", id |-> id, enabled |-> enabled,
                          read |-> pending[1].read, before |-> storage.moduleStates]
                    ELSE NoOp
  /\ pending' = <<>>
  /\ calls' = NoCalls
  /\ UNCHANGED <<pc, states, modules, activeModules, inflight, unit, runs, tab, quiet>>

SetModuleEnabledWrite(ids) == SetModuleEnabledWriteAs(ids, FALSE)

\* getStorage(key) called in any context
GetStorage(key) ==
  /\ did' = [op |-> "getStorage", key |-> key, value |-> getStorage(storage, key)]
  /\ calls' = NoCalls
  /\ UNCHANGED <<storage, changes, pc, states, modules, activeModules, inflight, unit,
                 runs, tab, quiet, pending>>

\* setStorage(key, value) by a module of a content script: the module was
\* enabled through moduleStates, so that key holds a value
SetStorage(key, values) ==
  /\ storage.moduleStates # <<>>
  /\ \E value \in values :
       /\ storage' = setStorage(storage, key, value)
       /\ did' = [op |-> "setStorage", key |-> key, value |-> value]
  /\ calls' = NoCalls
  /\ UNCHANGED <<changes, pc, states, modules, activeModules, inflight, unit, runs, tab,
                 quiet, pending>>

\* initializeStorage() in the service worker, up to the return of its get():
\* with moduleStates set the call ends here
InitializeStorageRead ==
  /\ pending = <<>>
  /\ IF storage.moduleStates # <<>>
     THEN /\ did' = [op |-> "initializeStorage", wrote |-> FALSE, atCall |-> storage,
                     before |-> storage]
          /\ pending' = pending
     ELSE /\ did' = NoOp
          /\ pending' = <<[fn |-> "initializeStorage", read |-> storage]>>
  /\ calls' = NoCalls
  /\ UNCHANGED <<storage, changes, pc, states, modules, activeModules, inflight, unit,
                 runs, tab, quiet>>

\* ... and its set() of the three keys, over whatever the store holds by now
InitializeStorageWrite ==
  /\ pending # <<>> /\ pending[1].fn = "initializeStorage"
  /\ Len(changes) < MaxChanges
  /\ storage' = setStorage(setStorage(setStorage(storage, "moduleStates", moduleDefaults),
                                     "cardPreferences", getDefault("cardPreferences")),
                          "favouriteQualities", getDefault("favouriteQualities"))
  /\ changes' = IF pc = "listening" /\ storage.moduleStates # <<moduleDefaults>>
                THEN Append(changes, ChangeOf(storage, "moduleStates", moduleDefaults))
                ELSE changes
  /\ did' = [op |-> "initializeStorage", wrote |-> TRUE, atCall |-> pending[1].read,
             before |-> storage]
  /\ pending' = <<>>
  /\ calls' = NoCalls
  /\ UNCHANGED <<pc, states, modules, activeModules, inflight, unit, runs, tab, quiet>>

\* the listener initialize() registered, run on the next queued event
OnStorageChanged(throwing) ==
  /\ pc = "listening"
  /\ changes # <<>>
  /\ LET ev == Head(changes)
     IN IF ev.key # "moduleStates" \/ ev.newValue = <<>>
        THEN /\ calls' = NoCalls
             /\ UNCHANGED <<activeModules, inflight, unit, runs>>
        ELSE LET newStates == ev.newValue[1]
                 oldStates == IF ev.oldValue = <<>> THEN <<>> ELSE ev.oldValue[1]
             IN \E oc \in [ModuleIds -> Outcomes(throwing)] :
                  Commit(listenerLoop(Manager("notify"), 1, oldStates, newStates, oc))
  /\ changes' = Tail(changes)
  /\ did' = NoOp
  /\ UNCHANGED <<storage, pc, states, modules, tab, quiet, pending>>

\* enable() of an async module resumes after its read; the promise enableModule
\* awaits then resolves and the module joins the active set
EnableResume(id) ==
  /\ inflight[id] > 0
  /\ inflight' = [inflight EXCEPT ![id] = @ - 1]
  /\ unit' = [unit EXCEPT ![id] = Deliver(id, EnableFinish(id, @, storage))]
  /\ activeModules' = activeModules \cup {id}
  /\ calls' = NoCalls
  /\ did' = NoOp
  /\ UNCHANGED <<storage, changes, pc, states, modules, runs, tab, quiet, pending>>

\* the read of an async enable() fails: enable() rejects, enableModule logs it
EnableReject(id) ==
  /\ inflight[id] > 0
  /\ inflight' = [inflight EXCEPT ![id] = @ - 1]
  /\ calls' = [NoCalls EXCEPT !.threw = {id}]
  /\ did' = NoOp
  /\ UNCHANGED <<storage, changes, pc, states, modules, activeModules, unit, runs,
                 tab, quiet, pending>>

(***************************************************************************)
(* Spec: the lifecycle manager with all three modules on a page that holds *)
(* nothing the modules write to; any routine may throw.                    *)
(***************************************************************************)
ModuleStatesInit == {<<>>, << <<>> >>, << [id \in {BazaarId} |-> TRUE] >>,
                     << [id \in {BazaarId, CardId} |-> TRUE] >>}

Init ==
  /\ storage \in {[moduleStates |-> ms, cardPreferences |-> <<>>,
                   favouriteQualities |-> <<>>] : ms \in ModuleStatesInit}
  /\ changes = <<>>
  /\ pc = "start"
  /\ states = <<>>
  /\ modules = <<>>
  /\ activeModules = {}
  /\ inflight = [id \in ModuleIds |-> 0]
  /\ unit = [id \in ModuleIds |->
               CASE id = BazaarId -> BazaarInit
                 [] id = CardId -> CardInit
                 [] OTHER -> QualityInit]
  /\ calls = NoCalls
  /\ runs = [id \in ModuleIds |-> 0]
  /\ tab = "none"
  /\ quiet = TRUE
  /\ pending = <<>>
  /\ did = NoOp

Next ==
  \/ ContentStart
  \/ InitializeResume(TRUE)
  \/ SetModuleEnabled({BazaarId, CardId})
  \/ SetModuleEnabledRead
  \/ SetModuleEnabledWrite({BazaarId, CardId})
  \/ OnStorageChanged(TRUE)
  \/ \E id \in {CardId, QualityId} : EnableResume(id)
  \/ \E id \in {CardId, QualityId} : EnableReject(id)

Spec == Init /\ [][Next]_vars

NextNoThrow ==
  \/ ContentStart
  \/ InitializeResume(FALSE)
  \/ SetModuleEnabled({BazaarId, CardId})
  \/ SetModuleEnabledRead
  \/ SetModuleEnabledWrite({BazaarId, CardId})
  \/ OnStorageChanged(FALSE)
  \/ \E id \in {CardId, QualityId} : EnableResume(id)

\* the lifecycle manager when no routine throws and no read fails
SpecNoThrow == Init /\ [][NextNoThrow]_vars

(***************************************************************************)
(* SpecUnits: one module on the page it works on (bazaar-total on the      *)
(* bazaar, card-favourites on the story page with its hand of cards,       *)
(* quality-favourites on the "myself" page), enabled and disabled through  *)
(* the manager while the page re-renders, the user hovers and types, and   *)
(* the debounce timers fire.  No routine throws.                           *)
(***************************************************************************)
Focus(t) ==
  CASE t = "bazaar" -> BazaarId
    [] t = "story" -> CardId
    [] OTHER -> QualityId

\* the timeout fires: the browser drops it, the variable keeps its handle
fired(s) ==
  [s EXCEPT !.timers = @ - 1,
            !.debounceTimer = IF s.timers = 1 /\ @ = "live" THEN "stale" ELSE @,
            !.burst = 0]

\* setTimeout's callback: update, applyAllCardStates or refreshAll
TimerFire(id) ==
  /\ unit[id].timers > 0
  /\ unit' = [unit EXCEPT ![id] = Deliver(id, Recompute(id, fired(@)))]
  /\ calls' = NoCalls
  /\ did' = NoOp
  /\ UNCHANGED <<storage, changes, pc, states, modules, activeModules, inflight, runs,
                 tab, quiet, pending>>

\* a task of the page or of the user that changes one module's part of the page
PageTask(id, s) ==
  /\ unit' = [unit EXCEPT ![id] = Deliver(id, s)]
  /\ calls' = NoCalls
  /\ did' = NoOp
  /\ UNCHANGED <<storage, changes, pc, states, modules, activeModules, inflight, runs,
                 tab, quiet, pending>>

NavStates == {"noButtons", "noneActive", "sellActive", "otherActive"}
ItemLists == {<<>>, <<ShopItem(2, 150, 0)>>, <<ShopItem(3, -1, 2), ShopItem(-1, 100, 0)>>}

\* the bazaar re-renders its tabs and items, keeping the header element, or
\* the whole exchange with a new header (or none)
PageRendersBazaarOf(lists) ==
  /\ tab = "bazaar" /\ ~quiet
  /\ \E nav \in NavStates, items \in lists, header \in {"keep", "new", "gone"} :
       LET s == unit[BazaarId]
           p == [s EXCEPT !.nav = nav, !.items = items]
       IN PageTask(BazaarId,
                   PageWrite(IF header = "keep" THEN p
                             ELSE [p EXCEPT !.header = (header = "new"), !.headerPos = "",
                                            !.badge = <<>>]))

PageRendersBazaar == PageRendersBazaarOf(ItemLists)

\* the story page re-renders the hand, each card as the page makes it
PageRendersCardsAs(card) ==
  /\ tab = "story" /\ ~quiet
  /\ \E present \in SUBSET CardIds :
       PageTask(CardId, PageWrite([unit[CardId] EXCEPT
                                     !.cards = [c \in present |-> card]]))

PageRendersCards == PageRendersCardsAs(FreshCard)

\* mouseover / mouseout on a card, received while the listeners are bound;
\* the pointer enters a card after it has left the others
CardMouseOver(c) ==
  /\ tab = "story" /\ unit[CardId].bound /\ c \in DOMAIN unit[CardId].cards
  /\ \A d \in DOMAIN unit[CardId].cards \ {c} : ~unit[CardId].cards[d].overlay
  /\ PageTask(CardId, showOverlay(unit[CardId], c))

CardMouseOut(c) ==
  /\ tab = "story" /\ unit[CardId].bound /\ c \in DOMAIN unit[CardId].cards
  /\ PageTask(CardId, hideOverlay(unit[CardId], c))

\* a click on a button of the overlay of card c: toggleCardPref up to the
\* await in setCardPref, the set() of the cache's copy issued.  The store
\* takes the write while the handler is still running (taken), or later
CardClickAs(c, pref, taken) ==
  /\ tab = "story" /\ c \in DOMAIN unit[CardId].cards /\ unit[CardId].cards[c].overlay
  /\ Len(pending) < MaxSettling
  /\ LET s == unit[CardId]
         t == setCardPrefCache(s, c, toggledPref(PrefOf(s.cardPrefs, c), pref))
     IN /\ unit' = [unit EXCEPT ![CardId] = Deliver(CardId, t)]
        /\ storage' = IF taken THEN setStorage(storage, "cardPreferences", t.cardPrefs)
                       ELSE storage
        /\ did' = [op |-> "toggleCardPref", card |-> c, pref |-> pref,
                   current |-> PrefOf(s.cardPrefs, c), before |-> s.cardPrefs]
        /\ pending' = Append(pending, [fn |-> "setCardPref", on |-> c, taken |-> taken,
                                       value |-> t.cardPrefs])
  /\ calls' = NoCalls
  /\ UNCHANGED <<changes, pc, states, modules, activeModules, inflight, runs, tab, quiet>>

CardClick(c, pref) == CardClickAs(c, pref, TRUE)

\* the store takes the oldest write of setCardPref it has not taken yet
SetCardPrefWrite ==
  /\ \E i \in 1..Len(pending) :
       /\ pending[i].fn = "setCardPref" /\ ~pending[i].taken
       /\ \A j \in 1..(i - 1) : pending[j].fn = "setCardPref" => pending[j].taken
       /\ storage' = setStorage(storage, "cardPreferences", pending[i].value)
       /\ pending' = [pending EXCEPT ![i].taken = TRUE]
  /\ calls' = NoCalls
  /\ did' = NoOp
  /\ UNCHANGED <<changes, pc, states, modules, activeModules, inflight, unit, runs,
                 tab, quiet>>

\* the set() of setCardPref fails before the store has taken it: the await
\* throws, the rest of setCardPref does not run and the promise of the
\* click listener's call rejects
SetCardPrefReject ==
  /\ pending # <<>> /\ pending[1].fn = "setCardPref" /\ ~pending[1].taken
  /\ pending' = Tail(pending)
  /\ did' = [op |-> "reject", fn |-> "setCardPref", on |-> pending[1].on]
  /\ calls' = NoCalls
  /\ UNCHANGED <<storage, changes, pc, states, modules, activeModules, inflight, unit,
                 runs, tab, quiet>>

\* setCardPref resumes after its await
SetCardPrefResume ==
  /\ pending # <<>> /\ pending[1].fn = "setCardPref" /\ pending[1].taken
  /\ pending' = Tail(pending)
  /\ unit' = [unit EXCEPT ![CardId] = Deliver(CardId, setCardPrefFinish(@, pending[1].on))]
  /\ calls' = NoCalls
  /\ did' = [op |-> "resume", fn |-> "setCardPref", life |-> unit[CardId].life]
  /\ UNCHANGED <<storage, changes, pc, states, modules, activeModules, inflight, runs,
                 tab, quiet>>

\* a click on the star of quality q, the hover star of its item or the star
\* of its clone in the favourites group: toggleFavourite up to its await
StarClick(q) ==
  /\ tab = "myself"
  /\ \/ q \in unit[QualityId].stars
     \/ unit[QualityId].group # <<>> /\ q \in Range(unit[QualityId].group[1])
  /\ Len(pending) < MaxSettling
  /\ LET s == unit[QualityId]
         ids == toggleFavouriteIds(s.favouriteIds, q)
     IN /\ unit' = [unit EXCEPT ![QualityId] = Deliver(QualityId, [s EXCEPT !.favouriteIds = ids])]
        /\ storage' = setStorage(storage, "favouriteQualities", ids)
        /\ did' = [op |-> "toggleFavourite", id |-> q, before |-> s.favouriteIds]
  /\ pending' = Append(pending, [fn |-> "toggleFavourite", on |-> q])
  /\ calls' = NoCalls
  /\ UNCHANGED <<changes, pc, states, modules, activeModules, inflight, runs, tab, quiet>>

\* toggleFavourite resumes after its await
ToggleFavouriteResume ==
  /\ pending # <<>> /\ pending[1].fn = "toggleFavourite"
  /\ pending' = Tail(pending)
  /\ unit' = [unit EXCEPT ![QualityId] = Deliver(QualityId, refreshAll(@))]
  /\ calls' = NoCalls
  /\ did' = [op |-> "resume", fn |-> "toggleFavourite", life |-> unit[QualityId].life]
  /\ UNCHANGED <<storage, changes, pc, states, modules, activeModules, inflight, runs,
                 tab, quiet>>

\* dragstart on the clone of q in the favourites group
DragStart(q) ==
  /\ tab = "myself"
  /\ unit[QualityId].group # <<>> /\ q \in Range(unit[QualityId].group[1])
  /\ PageTask(QualityId, [unit[QualityId] EXCEPT !.draggedId = q])

\* dragend on the dragged clone
DragEnd ==
  /\ tab = "myself" /\ unit[QualityId].draggedId # "null"
  /\ PageTask(QualityId, [unit[QualityId] EXCEPT !.draggedId = "null"])

\* drop on the clone of target, above its vertical midpoint or not: the
\* handler up to its return, or up to the await in reorderFavourite; when
\* reorderFavourite returns without awaiting, the handler's last two
\* statements run in the same task
Drop(target, insertBefore) ==
  /\ tab = "myself"
  /\ unit[QualityId].group # <<>> /\ target \in Range(unit[QualityId].group[1])
  /\ Len(pending) < MaxSettling
  /\ LET s == unit[QualityId]
         ignored == s.draggedId = "null" \/ s.draggedId = target
         r == IF ignored THEN [ids |-> s.favouriteIds, wrote |-> FALSE]
              ELSE reorderFavourite(s.favouriteIds, s.draggedId, target, insertBefore)
     IN /\ unit' = [unit EXCEPT ![QualityId] =
                      Deliver(QualityId,
                              [s EXCEPT !.favouriteIds = r.ids,
                                        !.draggedId = IF ignored \/ r.wrote THEN @ ELSE "null"])]
        /\ storage' = IF r.wrote THEN setStorage(storage, "favouriteQualities", r.ids)
                      ELSE storage
        /\ pending' = IF r.wrote THEN Append(pending, [fn |-> "reorderFavourite", on |-> target])
                      ELSE pending
        /\ did' = [op |-> "drop", dragged |-> s.draggedId, target |-> target,
                   insertBefore |-> insertBefore, before |-> s.favouriteIds,
                   stored |-> storage.favouriteQualities, wrote |-> r.wrote]
  /\ calls' = NoCalls
  /\ UNCHANGED <<changes, pc, states, modules, activeModules, inflight, runs, tab, quiet>>

\* reorderFavourite resumes after its await, then the drop handler after its
ReorderFavouriteResume ==
  /\ pending # <<>> /\ pending[1].fn = "reorderFavourite"
  /\ pending' = Tail(pending)
  /\ unit' = [unit EXCEPT ![QualityId] =
                Deliver(QualityId, [refreshAll(@) EXCEPT !.draggedId = "null"])]
  /\ calls' = NoCalls
  /\ did' = [op |-> "resume", fn |-> "reorderFavourite", life |-> unit[QualityId].life]
  /\ UNCHANGED <<storage, changes, pc, states, modules, activeModules, inflight, runs,
                 tab, quiet>>

\* computeTotal(items) called on the empty list, then on the list of the
\* call before with one more line
ComputeTotal(lines, maxLines) ==
  /\ \E items \in IF did.op = "computeTotal"
                   THEN {Append(did.items, line) : line \in lines} ELSE {<<>>} :
       /\ Len(items) <= maxLines
       /\ did' = [op |-> "computeTotal", items |-> items, total |-> computeTotal(items)]
  /\ calls' = NoCalls
  /\ UNCHANGED <<storage, changes, pc, states, modules, activeModules, inflight, unit,
                 runs, tab, quiet, pending>>

\* the "myself" page re-renders its quality groups; the favourites group,
\* a sibling of them, survives or not
PageRendersQualities ==
  /\ tab = "myself" /\ ~quiet
  /\ \E items \in SUBSET QualityIds, keepGroup \in BOOLEAN :
       PageTask(QualityId,
                PageWrite([unit[QualityId] EXCEPT
                             !.items = items, !.firstGroup = (items # {}),
                             !.stars = {}, !.relative = {},
                             !.group = IF keepGroup THEN @ ELSE <<>>]))

QualityMouseOver(q) ==
  /\ tab = "myself" /\ unit[QualityId].bound /\ q \in unit[QualityId].items
  /\ unit[QualityId].stars \subseteq {q}
  /\ PageTask(QualityId, qualityHandleMouseEnter(unit[QualityId], q))

QualityMouseOut(q) ==
  /\ tab = "myself" /\ unit[QualityId].bound /\ q \in unit[QualityId].items
  /\ PageTask(QualityId, qualityHandleMouseLeave(unit[QualityId], q))

\* the user types in, or empties, the search field
SearchInput ==
  /\ tab = "myself"
  /\ LET s == [unit[QualityId] EXCEPT !.search = ~@]
     IN PageTask(QualityId, IF s.bound THEN handleSearchInput(s) ELSE s)

\* from here on the page makes no change of its own
PageSettles ==
  /\ ~quiet
  /\ quiet' = TRUE
  /\ calls' = NoCalls
  /\ did' = NoOp
  /\ UNCHANGED <<storage, changes, pc, states, modules, activeModules, inflight, unit,
                 runs, tab, pending>>

CardPrefsInit == {<<>>, << [c \in {"c1"} |-> "favourite"] >>}
FavouritesInit == {<<>>, << <<"q2", "q1">> >>}
CssPositions == {"static", "absolute"}

StorageInit(t) ==
  {[moduleStates |-> ms, cardPreferences |-> cp, favouriteQualities |-> fq] :
     ms \in {<<>>, << [id \in {Focus(t)} |-> TRUE] >>},
     cp \in IF t = "story" THEN CardPrefsInit ELSE {<<>>},
     fq \in IF t = "myself" THEN FavouritesInit ELSE {<<>>}}

UnitInit(t) ==
  {[id \in ModuleIds |->
      CASE id = BazaarId -> IF t = "bazaar" THEN Common @@ b ELSE BazaarInit
        [] id = CardId -> IF t = "story" THEN Common @@ CardVars @@ c ELSE CardInit
        [] OTHER -> IF t = "myself" THEN Common @@ QualityVars @@ q ELSE QualityInit] :
     b \in {BazaarPage("sellActive", <<ShopItem(2, 150, 0)>>, TRUE, css) : css \in CssPositions},
     c \in {CardPage(css, CardIds) : css \in CssPositions},
     q \in {QualityPage(QualityIds, TRUE, css, FALSE) : css \in CssPositions}}

InitUnits ==
  /\ tab \in {"bazaar", "story", "myself"}
  /\ quiet = FALSE
  /\ storage \in StorageInit(tab)
  /\ unit \in UnitInit(tab)
  /\ changes = <<>>
  /\ pc = "start"
  /\ states = <<>>
  /\ modules = <<>>
  /\ activeModules = {}
  /\ inflight = [id \in ModuleIds |-> 0]
  /\ calls = NoCalls
  /\ runs = [id \in ModuleIds |-> 0]
  /\ pending = <<>>
  /\ did = NoOp

NextUnits ==
  \/ ContentStart
  \/ InitializeResume(FALSE)
  \/ SetModuleEnabled({Focus(tab)})
  \/ OnStorageChanged(FALSE)
  \/ \E id \in {CardId, QualityId} : EnableResume(id)
  \/ \E id \in ModuleIds : TimerFire(id)
  \/ PageRendersBazaar
  \/ PageRendersCards
  \/ \E c \in CardIds : CardMouseOver(c)
  \/ \E c \in CardIds : CardMouseOut(c)
  \/ PageRendersQualities
  \/ \E q \in QualityIds : QualityMouseOver(q)
  \/ \E q \in QualityIds : QualityMouseOut(q)
  \/ SearchInput
  \/ PageSettles

SpecUnits == InitUnits /\ [][NextUnits]_vars

\* SpecActive: the module of the page is enabled in the store from the start
\* and stays so; the page and the user act as in SpecUnits.  A pending
\* timeout fires unless it is cleared first.
InitActive == InitUnits /\ storage.moduleStates # <<>>

NextActive ==
  \/ ContentStart
  \/ InitializeResume(FALSE)
  \/ \E id \in {CardId, QualityId} : EnableResume(id)
  \/ \E id \in ModuleIds : TimerFire(id)
  \/ PageRendersBazaar
  \/ PageRendersCards
  \/ \E c \in CardIds : CardMouseOver(c)
  \/ \E c \in CardIds : CardMouseOut(c)
  \/ PageRendersQualities
  \/ \E q \in QualityIds : QualityMouseOver(q)
  \/ \E q \in QualityIds : QualityMouseOut(q)
  \/ SearchInput
  \/ PageSettles

SpecActive ==
  InitActive /\ [][NextActive]_vars /\ WF_vars(\E id \in ModuleIds : TimerFire(id))

(***************************************************************************)
(* Claims about the lifecycle manager.                                     *)
(***************************************************************************)
\* the step is a run of the onStorageChanged listener on a moduleStates event
IsNotify == calls'.kind = "notify"
OldStates == IF Head(changes).oldValue = <<>> THEN <<>> ELSE Head(changes).oldValue[1]
NewStates == Head(changes).newValue[1]
WentUp(id) == Lookup(NewStates, id) /\ ~Lookup(OldStates, id)
WentDown(id) == ~Lookup(NewStates, id) /\ Lookup(OldStates, id)

\* C1: on every change notification, a registered unit that went from
\* not-enabled to enabled has its activation routine invoked, one that went
\* from enabled to not-enabled has its deactivation routine invoked, and one
\* whose enabled value is unchanged has neither invoked.
C1_DiffInvokesRoutines ==
  [][IsNotify =>
       \A id \in Range(modules) :
         /\ WentUp(id) => id \in calls'.enabled
         /\ WentDown(id) => id \in calls'.disabled
         /\ (~WentUp(id) /\ ~WentDown(id)) => id \notin calls'.enabled \cup calls'.disabled]_vars

\* C2: right after initialize() the units whose activation routine was
\* invoked are exactly the registered units that are true in the map that was
\* read, which is the persisted map when the store was not changed since;
\* with {} none is invoked; a notification that sets the map to
\* {"bazaar-total": true} invokes the activation of no other unit.
C2_InitializeEnablesExactlyEnabled ==
  [][/\ calls'.kind = "init" =>
          /\ calls'.enabled = {id \in Range(modules) : Lookup(states, id)}
          /\ calls'.disabled = {}
          /\ states = getStorage(storage, "moduleStates") =>
                calls'.enabled = EnabledIn(getStorage(storage', "moduleStates"))
     /\ (IsNotify /\ NewStates = [id \in {BazaarId} |-> TRUE]) =>
          calls'.enabled \subseteq {BazaarId}]_vars

C2_Witness ==
  /\ calls.kind = "init"
  /\ calls.enabled = {BazaarId}
  /\ getStorage(storage, "moduleStates") = [id \in {BazaarId} |-> TRUE]

\* C3: a unit's activation routine is invoked at most once between two
\* deactivations, also while an earlier activation is still in flight, and a
\* deactivation request for a unit that is not active invokes nothing.
C3_ActivationAtMostOnce ==
  [][/\ \A id \in ModuleIds : runs'[id] <= 1
     /\ IsNotify => \A id \in calls'.disabled : id \in activeModules]_vars

\* C4: a routine that throws while a notification is processed is caught:
\* every registered unit of the same notification still has its routine
\* invoked as its own transition requires (activation when it went up and is
\* not in the active set, deactivation when it went down and is in it), and
\* the listener stays registered for later notifications.
C4_FailureIsolation ==
  [][IsNotify =>
       /\ \A id \in Range(modules) :
            /\ id \in calls'.enabled <=> (WentUp(id) /\ id \notin activeModules)
            /\ id \in calls'.disabled <=> (WentDown(id) /\ id \in activeModules)
       /\ pc' = "listening"
       /\ changes' = Tail(changes)]_vars

C4_Witness ==
  /\ calls.kind = "notify"
  /\ BazaarId \in calls.threw
  /\ CardId \in calls.enabled \cup calls.disabled

\* C5: a unit whose deactivation routine throws is nevertheless removed from
\* the active set.
C5_ThrowingDisableLeavesActiveSet ==
  calls.kind = "notify" => \A id \in calls.disabled \cap calls.threw : id \notin activeModules

(***************************************************************************)
(* Claims about the modules on their pages.                                *)
(***************************************************************************)
\* C6: in every state after a unit's disable() has returned and before a
\* later enable, no observer of the unit is connected, none of its observer
\* callbacks has run, and no recompute of it is pending.
C6_NothingRunsAfterDisable ==
  \A id \in ModuleIds :
    unit[id].life = "disabled" =>
      /\ ~Observing(unit[id])
      /\ unit[id].lastCb.batch = {}
      /\ unit[id].timers = 0

\* what a module leaves on its page and in its variables
NoTrace(id, s) ==
  CASE id = BazaarId -> s.badge = <<>> /\ s.headerPos = ""
    [] id = CardId ->
         /\ \A c \in DOMAIN s.cards : s.cards[c] = FreshCard
         /\ ~s.bound
         /\ s.cardPrefs = <<>>
    [] OTHER ->
         /\ s.stars = {} /\ s.relative = {} /\ s.group = <<>>
         /\ ~s.bodyClass /\ ~s.bound
         /\ s.favouriteIds = <<>>

\* C7: after a unit's deactivation no trace of it remains: no injected
\* element, no injected class, no inline position it forced on a host
\* element, no bound listener, and an empty preference cache.
C7_NoTraceAfterDisable ==
  \A id \in ModuleIds : unit[id].life = "disabled" => NoTrace(id, unit[id])

\* the kinds of element each module injects
Injected(id) ==
  CASE id = BazaarId -> {"badge"}
    [] id = CardId -> {"indicator", "overlay"}
    [] OTHER -> {"group", "star"}

\* the host element a module appends its elements to, where the module
\* looks at the nodes of a record: card-favourites at records of a
\* .hand__card, quality-favourites at records of any element
HostRecord(id, m) ==
  CASE id = BazaarId -> FALSE
    [] id = CardId -> m.target = "hand__card"
    [] OTHER -> TRUE

\* a record the module takes for its own: its target is an injected element
\* (for bazaar-total: while the badge is in the document), or it is a record
\* of a host element that adds and removes injected elements only
OwnRecord(id, s, m) ==
  \/ m.target \in Injected(id) /\ (id = BazaarId => s.badge # <<>>)
  \/ HostRecord(id, m) /\ (m.added \cup m.removed) \subseteq Injected(id)

\* C8: a delivered batch is discarded, the debounce timer neither reset nor
\* started, exactly when every record of it is one the unit takes for its
\* own: one whose target is an injected element, or (card-favourites,
\* quality-favourites) one of a host element that only adds or removes
\* injected elements; every other batch schedules a recompute.
C8_OwnBatchesDiscarded ==
  \A id \in ModuleIds :
    LET s == unit[id]
    IN s.lastCb.batch # {} =>
         (s.lastCb.scheduled <=> ~(\A m \in s.lastCb.batch : OwnRecord(id, s, m)))

\* a batch of a host-targeted record, the module's own, was discarded
C8_Witness ==
  /\ unit[CardId].lastCb.batch = {Mut("hand__card", {"overlay"}, {})}
  /\ ~unit[CardId].lastCb.scheduled

\* C8 as stated: a batch is discarded when the target of every record is an
\* injected element, and a batch with a record whose target is not one
\* always schedules a recompute.
C8_TargetDecides ==
  \A id \in ModuleIds :
    LET s == unit[id]
    IN s.lastCb.batch # {} =>
         (s.lastCb.scheduled <=> (\E m \in s.lastCb.batch : m.target \notin Injected(id)))

Idle == \A id \in ModuleIds : unit[id].timers = 0

\* C9: once the page has stopped changing, every unit reaches a state with
\* no pending debounce timer, whatever its own writes were, and from then on
\* none of its writes starts a timer again.
C9_NoObservationLoop ==
  /\ quiet ~> Idle
  /\ [][(quiet /\ Idle) => Idle']_vars

\* the page is quiet and a recompute is pending that the module's own write
\* scheduled
C9_Witness ==
  /\ quiet
  /\ unit[BazaarId].timers = 1
  /\ unit[BazaarId].lastCb.scheduled
  /\ PageMut \notin unit[BazaarId].lastCb.batch

\* C10: each unit has one pending-timer slot: at most one timeout is pending,
\* it is the one the slot holds, and one is pending exactly when batches have
\* scheduled since the last recompute ran or was cancelled, however many
\* they were.
C10_SinglePendingTimer ==
  \A id \in ModuleIds :
    /\ unit[id].timers <= 1
    /\ unit[id].timers = 1 <=> unit[id].burst > 0
    /\ unit[id].timers = 1 => unit[id].debounceTimer = "live"

\* a second batch arrived while a recompute was pending
C10_Witness ==
  \E id \in ModuleIds : unit[id].burst >= 2 /\ unit[id].timers = 1

(***************************************************************************)
(* The store and the contexts that call shared/storage.ts: the popup and   *)
(* the options page (setModuleEnabled), a second such context whose read   *)
(* and write other calls may separate, the service worker                  *)
(* (initializeStorage), the modules' preference writes, and readers.       *)
(* The store starts empty or with moduleStates set; the preference keys    *)
(* are written by modules only, which run once moduleStates enabled them.  *)
(***************************************************************************)
StoreKeys == {"moduleStates", "cardPreferences", "favouriteQualities"}

CardPrefValues == {<<>>, [c \in {"c1"} |-> "favourite"]}
FavouriteValues == {<<>>, <<"q2", "q1">>}

StoreInit ==
  {[moduleStates |-> <<>>, cardPreferences |-> <<>>, favouriteQualities |-> <<>>]}
  \cup {[moduleStates |-> ms, cardPreferences |-> cp, favouriteQualities |-> fq] :
          ms \in ModuleStatesInit \ {<<>>},
          cp \in {<<>>} \cup {<<v>> : v \in CardPrefValues},
          fq \in {<<>>} \cup {<<v>> : v \in FavouriteValues}}

InitStore ==
  /\ storage \in StoreInit
  /\ changes = <<>>
  /\ pc = "start"
  /\ states = <<>>
  /\ modules = <<>>
  /\ activeModules = {}
  /\ inflight = [id \in ModuleIds |-> 0]
  /\ unit = [id \in ModuleIds |->
               CASE id = BazaarId -> BazaarInit
                 [] id = CardId -> CardInit
                 [] OTHER -> QualityInit]
  /\ calls = NoCalls
  /\ runs = [id \in ModuleIds |-> 0]
  /\ tab = "none"
  /\ quiet = TRUE
  /\ pending = <<>>
  /\ did = NoOp

NextStore ==
  \/ SetModuleEnabledAs(ModuleIds, TRUE)
  \/ SetModuleEnabledRead
  \/ SetModuleEnabledWriteAs(ModuleIds, TRUE)
  \/ \E key \in StoreKeys : GetStorage(key)
  \/ SetStorage("cardPreferences", CardPrefValues)
  \/ SetStorage("favouriteQualities", FavouriteValues)
  \/ InitializeStorageRead
  \/ InitializeStorageWrite

SpecStore == InitStore /\ [][NextStore]_vars

(***************************************************************************)
(* The user's clicks on a page that has rendered: the module of the page    *)
(* is enabled in the store, the pointer moves over the cards or the         *)
(* qualities, and clicks the buttons the module put under it.  At most      *)
(* MaxSettling calls are between their set() and its return.                *)
(***************************************************************************)
InitPrefs == InitActive /\ tab \in {"story", "myself"}

NextPrefs ==
  \/ ContentStart
  \/ InitializeResume(FALSE)
  \/ \E id \in {CardId, QualityId} : EnableResume(id)
  \/ \E c \in CardIds : CardMouseOver(c)
  \/ \E c \in CardIds : CardMouseOut(c)
  \/ \E c \in CardIds, pref \in {"favourite", "avoid"} : CardClick(c, pref)
  \/ SetCardPrefResume
  \/ \E q \in QualityIds : QualityMouseOver(q)
  \/ \E q \in QualityIds : QualityMouseOut(q)
  \/ \E q \in QualityIds : StarClick(q)
  \/ ToggleFavouriteResume

SpecPrefs == InitPrefs /\ [][NextPrefs]_vars

(***************************************************************************)
(* The story page with the tag module enabled: the user hovers and clicks   *)
(* while the page re-renders the hand; the store takes each write at some   *)
(* moment between the set() and its return.  The pointer stays on one card.  *)
(***************************************************************************)
Hovered == "c1"

InitWrites == InitActive /\ tab = "story"

NextWrites ==
  \/ ContentStart
  \/ InitializeResume(FALSE)
  \/ EnableResume(CardId)
  \/ TimerFire(CardId)
  \/ PageRendersCards
  \/ PageSettles
  \/ CardMouseOver(Hovered)
  \/ CardMouseOut(Hovered)
  \/ \E pref \in {"favourite", "avoid"}, taken \in BOOLEAN : CardClickAs(Hovered, pref, taken)
  \/ SetCardPrefWrite
  \/ SetCardPrefResume

SpecWrites == InitWrites /\ [][NextWrites]_vars

\* the same with writes that fail
NextReject == NextWrites \/ SetCardPrefReject

SpecReject == InitWrites /\ [][NextReject]_vars

(***************************************************************************)
(* A second context (another tab of the game) writes the preference keys    *)
(* while the module of this page is enabled; the store queues each change   *)
(* for the listener this context registered.                                *)
(***************************************************************************)
SetStorageElsewhere(key, values) ==
  /\ Len(changes) < MaxChanges
  /\ \E value \in values :
       /\ storage' = setStorage(storage, key, value)
       /\ changes' = IF pc = "listening" /\ storage[key] # <<value>>
                     THEN Append(changes, ChangeOf(storage, key, value))
                     ELSE changes
  /\ calls' = NoCalls
  /\ did' = NoOp
  /\ UNCHANGED <<pc, states, modules, activeModules, inflight, unit, runs, tab, quiet,
                 pending>>

NextEcho ==
  \/ ContentStart
  \/ InitializeResume(FALSE)
  \/ \E id \in {CardId, QualityId} : EnableResume(id)
  \/ SetStorageElsewhere("cardPreferences", CardPrefValues)
  \/ SetStorageElsewhere("favouriteQualities", FavouriteValues)
  \/ OnStorageChanged(FALSE)
  \/ \E c \in CardIds : CardMouseOver(c)
  \/ \E c \in CardIds : CardMouseOut(c)
  \/ \E q \in QualityIds : QualityMouseOver(q)
  \/ \E q \in QualityIds : QualityMouseOut(q)

SpecEcho == InitPrefs /\ [][NextEcho]_vars

\* the same with the user's clicks on the hovered card, and the other
\* context tagging the other card
NextShared ==
  \/ NextEcho
  \/ SetStorageElsewhere("cardPreferences", {[c \in {"c2"} |-> "avoid"]})
  \/ \E pref \in {"favourite", "avoid"} : CardClick(Hovered, pref)
  \/ SetCardPrefResume

SpecShared == InitPrefs /\ [][NextShared]_vars

(***************************************************************************)
(* The user's clicks and drops as in SpecPrefs, while the module of the     *)
(* page is switched off and on in the store: disable() can run between a    *)
(* set() and its return.                                                    *)
(***************************************************************************)
NextLate ==
  \/ ContentStart
  \/ InitializeResume(FALSE)
  \/ SetModuleEnabled({Focus(tab)})
  \/ OnStorageChanged(FALSE)
  \/ \E id \in {CardId, QualityId} : EnableResume(id)
  \/ CardMouseOver(Hovered)
  \/ \E pref \in {"favourite", "avoid"} : CardClick(Hovered, pref)
  \/ SetCardPrefResume
  \/ \E q \in QualityIds : QualityMouseOver(q)
  \/ \E q \in QualityIds : StarClick(q)
  \/ ToggleFavouriteResume
  \/ \E q \in QualityIds : DragStart(q)
  \/ \E q \in QualityIds, insertBefore \in BOOLEAN : Drop(q, insertBefore)
  \/ ReorderFavouriteResume

SpecLate == InitPrefs /\ [][NextLate]_vars

(***************************************************************************)
(* A story page that gives its cards an inline position of its own; the     *)
(* tag module is enabled, the user hovers and clicks one card, the page     *)
(* re-renders the hand.                                                     *)
(***************************************************************************)
HostInline == "absolute"

StyledCard == [FreshCard EXCEPT !.pos = HostInline]

InitStyled ==
  /\ tab = "story"
  /\ quiet = FALSE
  /\ storage \in {st \in StorageInit("story") : st.moduleStates # <<>>}
  /\ unit \in {[u EXCEPT ![CardId].cards = [c \in DOMAIN @ |-> StyledCard]] :
                 u \in UnitInit("story")}
  /\ changes = <<>>
  /\ pc = "start"
  /\ states = <<>>
  /\ modules = <<>>
  /\ activeModules = {}
  /\ inflight = [id \in ModuleIds |-> 0]
  /\ calls = NoCalls
  /\ runs = [id \in ModuleIds |-> 0]
  /\ pending = <<>>
  /\ did = NoOp

NextStyled ==
  \/ ContentStart
  \/ InitializeResume(FALSE)
  \/ EnableResume(CardId)
  \/ TimerFire(CardId)
  \/ PageRendersCardsAs(StyledCard)
  \/ PageSettles
  \/ CardMouseOver(Hovered)
  \/ CardMouseOut(Hovered)
  \/ \E pref \in {"favourite", "avoid"} : CardClick(Hovered, pref)
  \/ SetCardPrefResume

SpecStyled == InitStyled /\ [][NextStyled]_vars

(***************************************************************************)
(* The pinned list of the "myself" page with three qualities on the page:   *)
(* the store holds any list of them without repetition, the module is       *)
(* enabled, and the user hovers, clicks stars and drags the clones of the   *)
(* favourites group.                                                        *)
(***************************************************************************)
PinIds == {"q1", "q2", "q3"}

PinLists ==
  {ids \in UNION {[1..n -> PinIds] : n \in 0..Cardinality(PinIds)} :
     \A i, j \in 1..Len(ids) : ids[i] = ids[j] => i = j}

InitPinnedOn(pages) ==
  /\ tab = "myself"
  /\ quiet = TRUE
  /\ storage \in {[moduleStates |-> << [id \in {QualityId} |-> TRUE] >>,
                   cardPreferences |-> <<>>, favouriteQualities |-> fq] :
                    fq \in {<<>>} \cup {<<ids>> : ids \in PinLists}}
  /\ unit \in {[id \in ModuleIds |->
               CASE id = BazaarId -> BazaarInit
                 [] id = CardId -> CardInit
                 [] OTHER -> Common @@ QualityVars @@ q] :
               q \in {QualityPage(items, TRUE, "static", FALSE) : items \in pages}}
  /\ changes = <<>>
  /\ pc = "start"
  /\ states = <<>>
  /\ modules = <<>>
  /\ activeModules = {}
  /\ inflight = [id \in ModuleIds |-> 0]
  /\ calls = NoCalls
  /\ runs = [id \in ModuleIds |-> 0]
  /\ pending = <<>>
  /\ did = NoOp

InitPinned == InitPinnedOn({PinIds})

NextPinned ==
  \/ ContentStart
  \/ InitializeResume(FALSE)
  \/ EnableResume(QualityId)
  \/ \E q \in PinIds : QualityMouseOver(q)
  \/ \E q \in PinIds : QualityMouseOut(q)
  \/ \E q \in PinIds : StarClick(q)
  \/ ToggleFavouriteResume
  \/ \E q \in PinIds : DragStart(q)
  \/ DragEnd
  \/ \E q \in PinIds, insertBefore \in BOOLEAN : Drop(q, insertBefore)
  \/ ReorderFavouriteResume

SpecPinned == InitPinned /\ [][NextPinned]_vars

\* the same with pinned ids whose item is not on the page, and the search
\* field in use
StalePages == {{"q1", "q3"}, {"q2"}}

NextStale == NextPinned \/ SearchInput

SpecStale == InitPinnedOn(StalePages) /\ [][NextStale]_vars

(***************************************************************************)
(* computeTotal on every list of at most MaxLines lines whose quantity and  *)
(* price are integers of 0..MaxAmount.                                      *)
(***************************************************************************)
MaxLines == 3
MaxAmount == 2

Lines == [quantity : 0..MaxAmount, price : 0..MaxAmount]

NextTotal == ComputeTotal(Lines, MaxLines)

SpecTotal == Init /\ [][NextTotal]_vars

(***************************************************************************)
(* The bazaar page with shop items of both currencies, of one, and with     *)
(* totals of zero; the module is toggled in the store while the page        *)
(* re-renders.                                                              *)
(***************************************************************************)
ItemListsMixed ==
  ItemLists \cup {<<ShopItem(2, 150, 0), ShopItem(3, -1, 2)>>,
                  <<ShopItem(0, 150, 0)>>,
                  <<ShopItem(1, 0, 0), ShopItem(2, -1, 1)>>,
                  <<ShopItem(1, -1, 0)>>}

InitBazaar == InitUnits /\ tab = "bazaar"

NextBazaar ==
  \/ ContentStart
  \/ InitializeResume(FALSE)
  \/ SetModuleEnabled({BazaarId})
  \/ OnStorageChanged(FALSE)
  \/ TimerFire(BazaarId)
  \/ PageRendersBazaarOf(ItemListsMixed)
  \/ PageSettles

SpecBazaar == InitBazaar /\ [][NextBazaar]_vars

(***************************************************************************)
(* The manager with any sequence of register calls before initialize(),    *)
(* among them calls with a second unit of an id.                           *)
(***************************************************************************)
Units == {BazaarId, SecondBazaar, CardId}

NextRegister ==
  \/ \E u \in Units : Register(u)
  \/ InitializeStart
  \/ InitializeResume(FALSE)
  \/ SetModuleEnabled({BazaarId, CardId})
  \/ OnStorageChanged(FALSE)
  \/ EnableResume(CardId)

SpecRegister == Init /\ [][NextRegister]_vars

(***************************************************************************)
(* Claims about the apply functions.                                       *)
(***************************************************************************)
\* the document as a module reads and writes it
Doc(id, s) ==
  CASE id = BazaarId ->
         [nav |-> s.nav, items |-> s.items, header |-> s.header,
          headerPos |-> s.headerPos, badge |-> s.badge]
    [] id = CardId -> [cards |-> s.cards]
    [] OTHER ->
         [items |-> s.items, firstGroup |-> s.firstGroup, search |-> s.search,
          stars |-> s.stars, relative |-> s.relative, group |-> s.group,
          bodyClass |-> s.bodyClass]

\* C11: each unit's apply function (update, applyAllCardStates,
\* buildFavouritesGroup) is idempotent: from every state, with the page and
\* the preference cache as they are, the document after two and after three
\* consecutive calls is the document after one.
C11_ApplyIdempotent ==
  \A id \in ModuleIds :
    LET once == Recompute(id, unit[id])
        twice == Recompute(id, once)
        thrice == Recompute(id, twice)
    IN /\ Doc(id, twice) = Doc(id, once)
       /\ Doc(id, thrice) = Doc(id, once)

\* a first call that changes the document: a recompute is pending on a
\* bazaar whose badge is missing or out of date
C11_Witness ==
  /\ unit[BazaarId].life = "enabled"
  /\ unit[BazaarId].timers = 1
  /\ Doc(BazaarId, Recompute(BazaarId, unit[BazaarId])) # Doc(BazaarId, unit[BazaarId])
  /\ Recompute(BazaarId, unit[BazaarId]).badge # <<>>

(***************************************************************************)
(* Claims about the store.  did is the call of shared/storage.ts that the  *)
(* step just taken completed: what it read, what the store held just       *)
(* before its write (before), and for initializeStorage what the store     *)
(* held when it was called (atCall).                                       *)
(***************************************************************************)
ValuesOf(key) ==
  CASE key = "moduleStates" -> UNION {[d -> BOOLEAN] : d \in SUBSET ModuleIds}
    [] key = "cardPreferences" ->
         UNION {[d -> {"favourite", "avoid"}] : d \in SUBSET CardIds}
    [] OTHER -> UNION {[1..n -> QualityIds] : n \in 0..Cardinality(QualityIds)}

Held(v) == IF v = <<>> THEN <<>> ELSE v[1]

\* C12: read-modify-write updates are not atomic across contexts and resolve
\* as last-write-wins: after a setModuleEnabled (or a preference write)
\* completes, the persisted value is exactly the value that writer wrote, the
\* map it had read with its one entry set, whatever the store held just
\* before the write.
C12_LastWriteWins ==
  /\ did.op = "setModuleEnabled" =>
        /\ storage.moduleStates # <<>>
        /\ DOMAIN storage.moduleStates[1] = DOMAIN did.read \cup {did.id}
        /\ \A x \in DOMAIN storage.moduleStates[1] :
             storage.moduleStates[1][x] = IF x = did.id THEN did.enabled ELSE did.read[x]
  /\ did.op = "setStorage" => storage[did.key] = <<did.value>>

\* the interleaving in which the earlier context's update is absent: another
\* context enabled x between this writer's read and its write, and the write
\* left the store without an entry for x
C12_Witness ==
  /\ did.op = "setModuleEnabled"
  /\ did.before # <<>>
  /\ \E x \in DOMAIN did.before[1] \ {did.id} :
       /\ did.before[1][x]
       /\ x \notin DOMAIN did.read
       /\ x \notin DOMAIN storage.moduleStates[1]

\* C13: getStorage(key) returns the last persisted value of key, and the
\* key's static default (the empty map, the empty list) when the key has
\* never been set; what it returns is always a value of the key's type,
\* never null or undefined; a read after a completed write returns what was
\* written.
C13_GetStorageValue ==
  /\ did.op = "getStorage" =>
        /\ did.value = Held(storage[did.key])
        /\ did.value \in ValuesOf(did.key)
  /\ did.op = "setStorage" => getStorage(storage, did.key) = did.value
  /\ did.op = "setModuleEnabled" =>
        /\ did.id \in DOMAIN getStorage(storage, "moduleStates")
        /\ getStorage(storage, "moduleStates")[did.id] = did.enabled

\* a read of a key never set, in a store that holds other keys
C13_Witness ==
  /\ did.op = "getStorage"
  /\ did.key = "favouriteQualities"
  /\ storage.favouriteQualities = <<>>
  /\ storage.cardPreferences # <<>>
  /\ did.value = <<>>

\* C14: first-run initialization never overwrites a key that already has a
\* value: after initializeStorage() every key that held a value still holds
\* that value, and the enabled-state key holds a value, so that a second
\* invocation takes the branch that writes nothing.
C14_InitializeKeepsValues ==
  did.op = "initializeStorage" =>
    /\ \A key \in StoreKeys : did.before[key] # <<>> => storage[key] = did.before[key]
    /\ storage.moduleStates # <<>>

\* C15: when the enabled-state key is unset at the call, initializeStorage()
\* writes, and sets the key to the map of exactly the ids of MODULE_REGISTRY,
\* each mapped to false; when the key is set at the call it writes nothing.
C15_SeedsAllFalse ==
  did.op = "initializeStorage" =>
    /\ did.wrote = (did.atCall.moduleStates = <<>>)
    /\ did.wrote =>
          /\ storage.moduleStates # <<>>
          /\ DOMAIN storage.moduleStates[1] = Range(MODULE_REGISTRY)
          /\ \A id \in Range(MODULE_REGISTRY) : storage.moduleStates[1][id] = FALSE

\* an initialization of an empty store that nothing interfered with
C15_Witness ==
  /\ did.op = "initializeStorage"
  /\ did.wrote
  /\ did.before = did.atCall
  /\ \A key \in StoreKeys : did.before[key] = <<>>

\* C16: setModuleEnabled(id, v) run without interference (the store holds at
\* its write what it read) leaves the persisted map with id mapped to v, so
\* that isModuleEnabled(id) returns v, and every other id as it was: absent
\* if it was absent, with the same value otherwise.
C16_SetModuleEnabledFrame ==
  did.op = "setModuleEnabled" /\ did.read = Held(did.before) =>
    /\ storage.moduleStates # <<>>
    /\ did.id \in DOMAIN storage.moduleStates[1]
    /\ storage.moduleStates[1][did.id] = did.enabled
    /\ isModuleEnabled(storage, did.id) = did.enabled
    /\ \A x \in ModuleIds \ {did.id} :
         /\ x \in DOMAIN storage.moduleStates[1] <=> x \in DOMAIN Held(did.before)
         /\ x \in DOMAIN Held(did.before) =>
              storage.moduleStates[1][x] = Held(did.before)[x]
         /\ isModuleEnabled(storage, x) = Lookup(Held(did.before), x)

\* a call that turns one module off while another is on
C16_Witness ==
  /\ did.op = "setModuleEnabled"
  /\ did.read = Held(did.before)
  /\ ~did.enabled
  /\ Lookup(did.read, did.id)
  /\ \E x \in ModuleIds \ {did.id} : Lookup(did.read, x) /\ isModuleEnabled(storage, x)

(***************************************************************************)
(* Claims about the registry.                                              *)
(***************************************************************************)
\* C17: register(unit) with an id that is already registered is a no-op:
\* the registry is left as it was, every unit in it stays where it is (the
\* registry only grows, by units of new ids), and the manager invokes the
\* routines of units in the registry only, so never those of the later unit.
C17_DuplicateRegisterNoOp ==
  [][/\ Len(modules') >= Len(modules)
     /\ \A i \in 1..Len(modules) : modules'[i] = modules[i]
     /\ did'.op = "register" /\ has(modules, IdOf(did'.unit)) => modules' = modules
     /\ \A i, j \in 1..Len(modules') : IdOf(modules'[i]) = IdOf(modules'[j]) => i = j
     /\ calls'.units \subseteq Range(modules')]_vars

\* a register call with the second unit of a registered id has returned
C17_Witness ==
  /\ did.op = "register"
  /\ did.unit \notin Range(modules)
  /\ has(modules, IdOf(did.unit))

(***************************************************************************)
(* Claims about the preference toggles.                                    *)
(***************************************************************************)
\* C18: tri-state transitions: a click on button p of an item whose tag is t
\* leaves the tag none when t = p and p otherwise (from the other tag too,
\* in one step), and the persisted map is the cache, with the item's id in
\* it exactly when the new tag is not none; once no call is between its
\* set() and its return, every card shows the tag the cache has for it.
C18_TriState ==
  /\ did.op = "toggleCardPref" =>
        LET new == PrefOf(unit[CardId].cardPrefs, did.card)
        IN /\ new = IF did.current = did.pref THEN "none" ELSE did.pref
           /\ storage.cardPreferences # <<>>
           /\ did.card \in DOMAIN storage.cardPreferences[1] <=> new # "none"
           /\ new # "none" => storage.cardPreferences[1][did.card] = new
  /\ pending = <<>> /\ unit[CardId].life = "enabled" =>
        \A c \in DOMAIN unit[CardId].cards :
          /\ unit[CardId].cards[c].cls = PrefOf(unit[CardId].cardPrefs, c)
          /\ unit[CardId].cards[c].indicator = PrefOf(unit[CardId].cardPrefs, c)

\* a direct switch from avoid to favourite
C18_Witness ==
  /\ did.op = "toggleCardPref"
  /\ did.current = "avoid"
  /\ did.pref = "favourite"
  /\ PrefOf(unit[CardId].cardPrefs, did.card) = "favourite"

\* C19: toggle idempotence: for every card under the pointer, whatever its
\* tag, and either button, two toggles with that button return the card to
\* its original tag and leave its class, its indicator and the indicator's
\* visibility as they were.
C19_ToggleTwiceRestores ==
  \A c \in DOMAIN unit[CardId].cards, pref \in {"favourite", "avoid"} :
    pending = <<>> /\ unit[CardId].cards[c].overlay =>
      LET s == unit[CardId]
          r == toggleCardPref(toggleCardPref(s, c, pref), c, pref)
      IN /\ PrefOf(r.cardPrefs, c) = PrefOf(s.cardPrefs, c)
         /\ r.cards[c].cls = s.cards[c].cls
         /\ r.cards[c].indicator = s.cards[c].indicator
         /\ r.cards[c].hidden = s.cards[c].hidden

ValidDrop ==
  /\ did.op = "drop"
  /\ did.dragged # did.target
  /\ did.dragged \in Range(did.before)
  /\ did.target \in Range(did.before)

PlaceOf(ids, x) == CHOOSE i \in 1..Len(ids) : ids[i] = x

\* C21: reorder placement: after a drop of a dragged id d on a distinct
\* target t, both in the list, d is immediately before t when the drop was
\* above t's midpoint and immediately after t otherwise, and the ids other
\* than d keep their relative order.
C21_ReorderPlacement ==
  ValidDrop =>
    LET a == unit[QualityId].favouriteIds
        d == did.dragged
        t == did.target
    IN /\ d \in Range(a) /\ t \in Range(a)
       /\ IF did.insertBefore THEN PlaceOf(a, d) + 1 = PlaceOf(a, t)
                              ELSE PlaceOf(a, d) = PlaceOf(a, t) + 1
       /\ SelectSeq(a, LAMBDA x : x # d) = SelectSeq(did.before, LAMBDA x : x # d)

\* the last of three dropped above the first: [a, b, c] becomes [c, a, b]
C21_Witness ==
  /\ ValidDrop
  /\ Len(did.before) = 3
  /\ did.dragged = did.before[3] /\ did.target = did.before[1] /\ did.insertBefore
  /\ unit[QualityId].favouriteIds = <<did.before[3], did.before[1], did.before[2]>>

\* C22: the reorder is a permutation: after a drop of a dragged id on a
\* distinct target, both in the list, the list has the same ids and the same
\* length as before, each id once.
C22_ReorderPermutation ==
  ValidDrop =>
    LET a == unit[QualityId].favouriteIds
    IN /\ Len(a) = Len(did.before)
       /\ Range(a) = Range(did.before)
       /\ \A i, j \in 1..Len(a) : a[i] = a[j] => i = j

\* a drop that changed the order of a list of three
C22_Witness ==
  /\ ValidDrop
  /\ Len(did.before) = 3
  /\ unit[QualityId].favouriteIds # did.before
  /\ ~did.insertBefore

\* C23: a drop on the dragged element itself, or on a target whose id is no
\* longer in the list, is a no-op: the list is as before, nothing is written
\* to the store and no write is in flight for it.
C23_DropNoOp ==
  did.op = "drop" /\ (did.dragged = did.target \/ did.target \notin Range(did.before)) =>
    /\ unit[QualityId].favouriteIds = did.before
    /\ storage.favouriteQualities = did.stored
    /\ ~did.wrote

\* a drop on the clone of an id that a click has just taken out of the list
C23_Witness ==
  /\ did.op = "drop"
  /\ did.dragged \notin {"null", did.target}
  /\ did.target \notin Range(did.before)
  /\ did.dragged \in Range(did.before)

(***************************************************************************)
(* Claims about the favourites group and the search filter.                *)
(***************************************************************************)
\* a step that runs handleSearchInput, or a pass of refreshAll: from the
\* timer, at the end of enable(), at the end of a toggle or a reorder
RebuildStep ==
  \/ SearchInput /\ unit[QualityId].bound
  \/ TimerFire(QualityId)
  \/ EnableResume(QualityId)
  \/ ToggleFavouriteResume
  \/ ReorderFavouriteResume

LivePinned(s) == {q \in Range(s.favouriteIds) : q \in s.items}

\* C24: after every search-input event and after every rebuild pass, the
\* favourites group is absent when the search field holds text, and present,
\* with the clones of the pinned ids that have an item on the page, when the
\* field is blank and some pinned id has an item on the page.
C24_GroupFollowsSearch ==
  [][RebuildStep =>
       LET s == unit'[QualityId]
       IN /\ s.search => s.group = <<>>
          /\ ~s.search /\ LivePinned(s) # {} =>
                s.group # <<>> /\ Range(s.group[1]) = LivePinned(s)
          /\ LivePinned(s) = {} => s.group = <<>>]_vars

\* the search field holds text, pinned ids have items on the page and the
\* enabled module shows no group
C24_Witness ==
  /\ unit[QualityId].life = "enabled" /\ unit[QualityId].bound
  /\ unit[QualityId].search
  /\ LivePinned(unit[QualityId]) # {}
  /\ unit[QualityId].group = <<>>
  /\ unit[QualityId].timers = 0

(***************************************************************************)
(* Claims about the bazaar total.                                          *)
(***************************************************************************)
RECURSIVE SumFrom(_, _)
SumFrom(items, i) ==
  IF i > Len(items) THEN 0 ELSE items[i].quantity * items[i].price + SumFrom(items, i + 1)

Perms(n) == {f \in [1..n -> 1..n] : \A i, j \in 1..n : f[i] = f[j] => i = j}

\* C25: computeTotal returns the sum of quantity * price over the lines: 0
\* for the empty list, the same with the lines of zero quantity or zero
\* price left out, and the same for every permutation of the lines.
C25_ComputeTotalSum ==
  did.op = "computeTotal" =>
    LET items == did.items
        n == Len(items)
    IN /\ did.total = SumFrom(items, 1)
       /\ n = 0 => did.total = 0
       /\ computeTotal(SelectSeq(items, LAMBDA it : it.quantity # 0 /\ it.price # 0))
            = did.total
       /\ \A f \in Perms(n) : computeTotal([i \in 1..n |-> items[f[i]]]) = did.total

\* three different lines, one of them of zero quantity, with a total that
\* is not zero
C25_Witness ==
  /\ did.op = "computeTotal"
  /\ Len(did.items) = 3
  /\ did.items[1] # did.items[2] /\ did.items[2] # did.items[3]
  /\ did.items[2].quantity = 0
  /\ did.total > 0

\* a recompute pass of bazaar-total: update() from the timer, or from enable()
BazaarPass == TimerFire(BazaarId) \/ BazaarId \in calls'.enabled

\* the totals of the page, currency by currency: the items with a quantity
\* element and a price element, and those with a quantity element, no price
\* element and a scrip count in their description
RECURSIVE EchoSum(_, _)
EchoSum(items, i) ==
  IF i > Len(items) THEN 0
  ELSE (IF items[i].qty >= 0 /\ items[i].price >= 0 THEN items[i].qty * items[i].price ELSE 0)
         + EchoSum(items, i + 1)

RECURSIVE ScripSum(_, _)
ScripSum(items, i) ==
  IF i > Len(items) THEN 0
  ELSE (IF items[i].qty >= 0 /\ items[i].price < 0 /\ items[i].scrip > 0
        THEN items[i].qty * items[i].scrip ELSE 0)
         + ScripSum(items, i + 1)

\* C26: badge display condition: after every recompute pass the badge is
\* present iff the sell view is the active or the default view, the page
\* has a shop item, the header exists and a currency total is not zero;
\* when present it holds the label, then one value for each currency whose
\* total is not zero, Echoes first, and one separator between two values.
C26_BadgeCondition ==
  [][BazaarPass =>
       LET s == unit'[BazaarId]
           echo == EchoSum(s.items, 1)
           scrip == ScripSum(s.items, 1)
           shown == (IF echo # 0 THEN <<[cls |-> "value", currency |-> "Echoes",
                                         total |-> echo]>> ELSE <<>>)
                    \o (IF echo # 0 /\ scrip # 0 THEN <<[cls |-> "separator"]>> ELSE <<>>)
                    \o (IF scrip # 0 THEN <<[cls |-> "value", currency |-> "Hinterland Scrip",
                                             total |-> scrip]>> ELSE <<>>)
       IN /\ s.badge # <<>> <=>
               /\ s.nav \in {"sellActive", "noneActive"}
               /\ Len(s.items) > 0
               /\ s.header
               /\ echo # 0 \/ scrip # 0
          /\ s.badge # <<>> => s.badge[1] = <<[cls |-> "label"]>> \o shown]_vars

\* a badge with both currencies
C26_Witness ==
  /\ unit[BazaarId].life = "enabled"
  /\ unit[BazaarId].badge # <<>>
  /\ Len(unit[BazaarId].badge[1]) = 4
  /\ unit[BazaarId].badge[1][3].cls = "separator"

\* the cards whose toggle is between its set() and the return of it
Toggling == {pending[i].on : i \in {j \in 1..Len(pending) : pending[j].fn = "setCardPref"}}

\* the tag the store holds for card c
StoredPref(st, c) == PrefOf(getStorage(st, "cardPreferences"), c)

\* C27: state transitions persist before re-rendering: for every tag
\* toggle, the render at the end of the toggle and a debounced pass that
\* fires while the toggle's write is in flight leave the card with the tag
\* the store holds for it at that moment.
C27_RenderShowsStore ==
  [][/\ SetCardPrefResume =>
          \A c \in {pending[1].on} \cap DOMAIN unit'[CardId].cards :
            unit'[CardId].cards[c].cls = StoredPref(storage', c)
     /\ TimerFire(CardId) =>
          \A c \in Toggling \cap DOMAIN unit'[CardId].cards :
            unit'[CardId].cards[c].cls = StoredPref(storage', c)]_vars

\* the listener receives the change of one key
Echo(key) == OnStorageChanged(FALSE) /\ Head(changes).key = key

\* C28: the cache is a read-through projection of the store: once the
\* change of its preference key written by another context has been
\* delivered to an enabled unit, the unit's cache is the store's new value
\* and the cards carry the tags of that value.
C28_CacheFollowsStore ==
  [][/\ Echo("cardPreferences") /\ unit[CardId].life = "enabled" =>
          /\ unit'[CardId].cardPrefs = Head(changes).newValue[1]
          /\ \A c \in DOMAIN unit'[CardId].cards :
               unit'[CardId].cards[c].cls = PrefOf(Head(changes).newValue[1], c)
     /\ Echo("favouriteQualities") /\ unit[QualityId].life = "enabled" =>
          unit'[QualityId].favouriteIds = Head(changes).newValue[1]]_vars

\* the indicator of card c is on the card without the class that hides it
VisibleIndicator(s, c) == s.cards[c].indicator # "none" /\ ~s.cards[c].hidden

\* C29: the hover overlay replaces the indicator: in every state of the
\* enabled tag unit a card with the action bar on it has no visible
\* indicator, also after a click on the bar has changed the tag; after the
\* pointer has left a card the bar is absent and the indicator, if the card
\* has one, is visible again.
C29_OverlayReplacesIndicator ==
  [][/\ unit'[CardId].life = "enabled" =>
          \A c \in DOMAIN unit'[CardId].cards :
            unit'[CardId].cards[c].overlay => ~VisibleIndicator(unit'[CardId], c)
     /\ \A c \in CardIds :
          CardMouseOut(c) =>
            /\ ~unit'[CardId].cards[c].overlay
            /\ unit'[CardId].cards[c].indicator # "none" => VisibleIndicator(unit'[CardId], c)]_vars

\* a call resumes after its set() on a unit whose disable() has run since
LateResume(id) ==
  /\ unit[id].life = "disabled"
  /\ IF id = CardId THEN SetCardPrefResume
     ELSE ToggleFavouriteResume \/ ReorderFavouriteResume

\* the elements and classes of the module on the page, and its observer,
\* timer and listeners
Bare(id, s) ==
  /\ ~s.observer /\ s.timers = 0 /\ s.debounceTimer = "null" /\ ~s.bound
  /\ IF id = CardId
     THEN \A c \in DOMAIN s.cards :
            s.cards[c].cls = "none" /\ s.cards[c].indicator = "none" /\ ~s.cards[c].overlay
     ELSE s.group = <<>> /\ s.stars = {} /\ ~s.bodyClass

\* C30: a write started before deactivation completes afterwards as a
\* no-op: when the awaited write of a tag toggle, of a pinned-list toggle or
\* of a reorder returns after disable() has run, the call injects no
\* element and no class and registers no observer, timer or listener.
C30_LateResumeNoOp ==
  [][\A id \in {CardId, QualityId} :
       LateResume(id) =>
         /\ Bare(id, unit'[id])
         /\ unit'[id].leaked = unit[id].leaked /\ unit'[id].muts = unit[id].muts]_vars

\* setCardPref has returned on the disabled unit, and so has reorderFavourite
C30_Witness ==
  /\ did.op = "resume" /\ did.life = "disabled"
  /\ did.fn \in {"setCardPref", "reorderFavourite"}

\* the pinned ids with an item on the page, in the order of the list
LiveInOrder(s) == SelectSeq(s.favouriteIds, LAMBDA q : q \in s.items)

\* C31: after every rebuild of the pinned section (the end of a toggle, the
\* end of a reorder, and every other pass) the favourites group, when it is
\* shown, holds exactly the pinned ids with an item on the page, each once,
\* in the order of the pinned-id list; with the search field blank it is
\* shown whenever there is such an id.
C31_GroupIsLiveListInOrder ==
  [][RebuildStep =>
       LET s == unit'[QualityId]
       IN /\ s.group # <<>> =>
               /\ s.group[1] = LiveInOrder(s)
               /\ \A i, j \in 1..Len(s.group[1]) : s.group[1][i] = s.group[1][j] => i = j
          /\ s.life = "enabled" /\ ~s.search /\ LiveInOrder(s) # <<>> => s.group # <<>>]_vars

\* a toggle or a reorder has returned, the list holds an id without an item
\* and the group shows the other two
C31_Witness ==
  /\ did.op = "resume" /\ did.fn \in {"toggleFavourite", "reorderFavourite"}
  /\ unit[QualityId].group # <<>>
  /\ Len(unit[QualityId].group[1]) = 2
  /\ Len(unit[QualityId].favouriteIds) = 3

\* a reconciliation pass outside activation: the debounced refresh of either
\* module, or the search-input handler
ReconcilePass == TimerFire(CardId) \/ TimerFire(QualityId) \/ SearchInput

\* C32: stale ids are never pruned: a debounced refresh and the
\* search-input handler leave the pinned-id list, the preference map and
\* the store as they are; activation takes the stored value whole, ids
\* without an item included, and writes nothing.
C32_NoPruning ==
  [][/\ ReconcilePass =>
          /\ storage' = storage
          /\ unit'[CardId].cardPrefs = unit[CardId].cardPrefs
          /\ unit'[QualityId].favouriteIds = unit[QualityId].favouriteIds
     /\ EnableResume(CardId) =>
          /\ storage' = storage
          /\ unit'[CardId].cardPrefs = getStorage(storage, "cardPreferences")
     /\ EnableResume(QualityId) =>
          /\ storage' = storage
          /\ unit'[QualityId].favouriteIds = getStorage(storage, "favouriteQualities")]_vars

\* a pass has built the group without the pinned id that has no item, and
\* the list still holds that id
C32_Witness ==
  /\ unit[QualityId].group # <<>>
  /\ Len(unit[QualityId].group[1]) = 1
  /\ Len(unit[QualityId].favouriteIds) = 2
  /\ \E q \in Range(unit[QualityId].favouriteIds) : q \notin unit[QualityId].items

\* a pass has run over the hand after the tagged card left the page
C32_CardWitness ==
  /\ unit[CardId].life = "enabled" /\ unit[CardId].debounceTimer = "stale"
  /\ \E c \in DOMAIN unit[CardId].cardPrefs : c \notin DOMAIN unit[CardId].cards

(***************************************************************************)
(* Claims about the lifecycle and the store together.                      *)
(***************************************************************************)
\* initialize() has returned, every change has been delivered and no
\* enable() is between its call and its return
Settled ==
  /\ pc = "listening"
  /\ changes = <<>>
  /\ \A id \in ModuleIds : inflight[id] = 0

\* C33: lifecycle state tracks the store: in every settled state in which
\* no routine has thrown, a registered unit is active (in the active set,
\* its observer connected) iff its id is true in the stored map; so also
\* when the true-to-false change arrived while enable() was awaiting.
C33_LifecycleTracksStore ==
  Settled =>
    \A id \in Range(modules) :
      IF isModuleEnabled(storage, id)
      THEN id \in activeModules /\ unit[id].observer
      ELSE id \notin activeModules /\ ~Observing(unit[id])

\* C34: no enabled-state change is missed during start-up: when
\* initialize() completes, the units it has activated are the registered
\* units that are true in the stored map at that moment, also when another
\* context wrote the map after initialize() read it and before it
\* subscribed.
C34_StartupMissesNoChange ==
  [][pc = "awaitStates" /\ pc' = "listening" =>
       \A id \in Range(modules) :
         id \in calls'.enabled <=> isModuleEnabled(storage', id)]_vars

\* C35: whatever notifications the manager has processed, a unit has at
\* most one connected mutation observer, none while it is not in the active
\* set, and no observer was replaced in the unit's variable while it was
\* still connected.
C35_OneObserverWhileActive ==
  \A id \in ModuleIds :
    /\ ~unit[id].leaked
    /\ Observing(unit[id]) => id \in activeModules

\* C36: a tag toggle changes only the toggled card's entry of the stored
\* preference map: every other card's entry that is in the store when the
\* write is issued, also one another context wrote after this unit was
\* activated, has the same value after the write.
C36_ToggleWritesOneEntry ==
  [][did'.op = "toggleCardPref" =>
       \A d \in CardIds \ {did'.card} : StoredPref(storage', d) = StoredPref(storage, d)]_vars

\* C37: a drop whose dragged id is no longer in the pinned list, on a
\* target that still is, leaves the list unchanged: reorderFavourite adds no
\* id that was not in the list.
C37_DropAddsNoId ==
  /\ did.op = "drop"
  /\ did.dragged \notin {"null", did.target} \cup Range(did.before)
  /\ did.target \in Range(did.before)
  => /\ unit[QualityId].favouriteIds = did.before
     /\ Range(unit[QualityId].favouriteIds) \subseteq Range(did.before)

NoRepeat(ids) == \A i, j \in 1..Len(ids) : ids[i] = ids[j] => i = j

\* C38: the pinned-id list never holds an id twice: with a stored list
\* without repetition at activation, after any toggles and any drops (any
\* dragged id, target and side) the in-memory list and the list in the
\* store are without repetition.
C38_NoDuplicateIds ==
  /\ NoRepeat(unit[QualityId].favouriteIds)
  /\ NoRepeat(getStorage(storage, "favouriteQualities"))

\* a drop has put back an id that a click had taken out of the list during
\* the drag
C38_Witness ==
  /\ did.op = "drop" /\ did.wrote
  /\ did.dragged \notin Range(did.before)
  /\ did.dragged \in Range(unit[QualityId].favouriteIds)
  /\ storage.favouriteQualities = <<unit[QualityId].favouriteIds>>

\* C39: a unit reverts only the style it added: after a pass of the tag
\* unit (at activation, from the timer, at the end of a toggle) a card that
\* carries none of the unit's elements (its indicator removed, or nothing
\* ever injected on it) has the inline position the page gave it.
C39_HostPositionKept ==
  [][TimerFire(CardId) \/ EnableResume(CardId) \/ SetCardPrefResume =>
       \A c \in DOMAIN unit'[CardId].cards :
         unit'[CardId].cards[c].indicator = "none" /\ ~unit'[CardId].cards[c].overlay =>
           unit'[CardId].cards[c].pos = HostInline]_vars

\* C40: when the write of a tag toggle fails, the cache is left as it was
\* before the toggle: here for the toggle whose click was the step before
\* and whose write is the only one in flight, so that the cache holds no tag
\* the store never received.
C40_FailedWriteRestoresCache ==
  [][SetCardPrefReject /\ did.op = "toggleCardPref" /\ Len(pending) = 1 =>
       /\ unit'[CardId].cardPrefs = did.before
       /\ PrefOf(unit'[CardId].cardPrefs, did.card) = StoredPref(storage', did.card)]_vars

====
